---- MODULE Spec2Model ----
(***************************************************************************)
(* SeedSmart: the GeoJSON reprojection helpers of the server               *)
(* (server/src/helpers/geom_transfer.ts) and their caller.                 *)
(*                                                                         *)
(* JavaScript values are tagged records, so that values of different      *)
(* JavaScript types can be compared:                                       *)
(*   null, undefined          [k |-> "null"], [k |-> "undefined"]          *)
(*   a number, a string       [k |-> "num", v |-> n], [k |-> "str", ...]   *)
(*   an array                 [k |-> "arr", v |-> <<e1, ..., en>>]         *)
(*   an object                [k |-> "obj", v |-> [key |-> value]]         *)
(* and a call that throws yields Throw instead of a value.  Numbers are    *)
(* integers: a coordinate in metres, a longitude or latitude in degrees.   *)
(*                                                                         *)
(* The objects the helpers assign to or delete from (a Feature, a          *)
(* FeatureCollection) live in a heap, a sequence of objects addressed by   *)
(* index, and are passed as [k |-> "ref", v |-> address]; every other      *)
(* value is never written and is held inline.                              *)
(*                                                                         *)
(*   fn     the helper called last ("none" before the first call)          *)
(*   given  the argument as the caller built it, before the call           *)
(*   arg    the argument passed (a reference for a heap object)            *)
(*   ret    the value returned, or Throw                                   *)
(*   heap   the heap after the call                                        *)
(*                                                                         *)
(* The caller is the GET /sowingmap handler of DashboardController.ts,     *)
(* which runs in two steps, the second after the await of the script, and  *)
(* so does the GET /topic handler next to it; the state of a request is    *)
(*   handler  where the handler is: "idle", "awaiting" or "done"           *)
(*   query    req.query.coordinates for /sowingmap, req.query for /topic   *)
(*   resolved whether the script was looked up: "no", "missing", "found"   *)
(*   spawned  the arguments of the script, once it is started              *)
(*   settled  how the script ended: rejected, or resolved with its stdout  *)
(*   sent     the responses sent, in order                                 *)
(*                                                                         *)
(* Requests served at the same time share the heap of the process, which   *)
(* holds the converter toWGS84 of geom_transfer.ts from the start:         *)
(*   inflight  the state of each of the GET /sowingmap requests            *)
(*   process   the heap of the process                                     *)
(*                                                                         *)
(* The client is the useDashboard hook (client/src/hooks/useDashboard.ts). *)
(* A step is one event, a call of a setter by the user or the end of a     *)
(* request, with the render and the effects it leads to: React runs the    *)
(* clean-up of an effect ahead of its next run, and no response is handled *)
(* in between.  The state of the hook is its useState cells               *)
(*   countries, selectedCountry, selectedRegion, regionsData, mapView,     *)
(*   sowingMap, suggestions, isSuggesting                                  *)
(* (selectedYear, selectedCategories, notes, topics and the country search *)
(* are left out: the effects and the handler modelled read none of them    *)
(* but to fill a request) and                                              *)
(*   mounted   whether the component is mounted                            *)
(*   fetches   the requests sent, in order: kind, parameter, the isMounted *)
(*             flag of the effect that sent it, and pending, ok or error   *)
(*   warnings  the number of warnings handleSuggest has logged             *)
(***************************************************************************)
EXTENDS Integers, Sequences, FiniteSets, TLC

VARIABLES fn, given, arg, ret, heap,
          handler, query, resolved, spawned, settled, sent,
          inflight, process,
          mounted, countries, selectedCountry, selectedRegion, regionsData,
          mapView, sowingMap, suggestions, isSuggesting, fetches, warnings

helperVars == <<fn, given, arg, ret, heap>>
handlerVars == <<handler, query, resolved, spawned, settled, sent>>
concurrentVars == <<inflight, process>>
hookVars ==
  <<mounted, countries, selectedCountry, selectedRegion, regionsData, mapView,
    sowingMap, suggestions, isSuggesting, fetches, warnings>>
vars == <<helperVars, handlerVars, concurrentVars, hookVars>>

----------------------------------------------------------------------------
(* JavaScript values *)

Null == [k |-> "null"]
Undef == [k |-> "undefined"]
Throw == [k |-> "throw"]
Num(n) == [k |-> "num", v |-> n]
Str(s) == [k |-> "str", v |-> s]
Arr(s) == [k |-> "arr", v |-> s]
Obj(r) == [k |-> "obj", v |-> r]

\* !v
Falsy(v) ==
  \/ v.k \in {"null", "undefined"}
  \/ v.k = "num" /\ v.v = 0
  \/ v.k = "str" /\ v.v = ""

\* Array.isArray(v)
IsArray(v) == v.k = "arr"

\* Number.isFinite(v)
IsFinite(v) == v.k = "num"

\* o.key, for an o that is neither null nor undefined
Get(o, key) ==
  IF o.k = "obj" /\ key \in DOMAIN o.v THEN o.v[key] ELSE Undef

\* key in o
Has(o, key) == o.k = "obj" /\ key \in DOMAIN o.v

\* a[i] with i counted from 0, undefined past the end: what a destructuring
\* pattern [x, y, z] binds
Elem(a, i) == IF i + 1 \in DOMAIN a.v THEN a.v[i + 1] ELSE Undef

\* the own enumerable properties { ...o } copies
OwnProps(o) ==
  CASE o.k = "obj" -> o.v
    [] o.k = "arr" -> [key \in {ToString(i - 1) : i \in DOMAIN o.v} |->
                         LET i == CHOOSE j \in DOMAIN o.v : ToString(j - 1) = key
                         IN  o.v[i]]
    [] OTHER -> <<>>

\* { ...o, key: val } as a value
SpreadWith(o, key, val) == Obj((key :> val) @@ OwnProps(o))

\* F(e) with e evaluated once: LET x == e IN F(x)
Bind(F(_), e) == CHOOSE r \in {F(x) : x \in {e}} : TRUE

\* a.map(F): a TypeError when a has no map method
Map(F(_), a) ==
  IF ~IsArray(a) THEN Throw
  ELSE LET r == [i \in DOMAIN a.v |-> F(a.v[i])]
       IN  IF \E i \in DOMAIN r : r[i] = Throw THEN Throw ELSE Arr(r)

----------------------------------------------------------------------------
(* proj4('EPSG:3857', 'EPSG:4326') *)

Abs(n) == IF n < 0 THEN 0 - n ELSE n
Sign(n) == IF n < 0 THEN 0 - 1 ELSE IF n > 0 THEN 1 ELSE 0

\* a / b to the nearest integer, for a >= 0 and b > 0
RoundDiv(a, b) == (2 * a + b) \div (2 * b)

\* One degree of longitude on the sphere of radius 6378137 m, in decimetres.
DecimetresPerDegree == 1113195

\* The longitude of easting x: x / R in degrees, to the nearest degree.
Lon(x) == Sign(x) * RoundDiv(Abs(x) * 10, DecimetresPerDegree)

\* The latitude of northing y: 2 atan(exp(y / R)) - pi / 2 in degrees, to the
\* nearest degree, from the series t - t^3 (pi/180)^2 / 6 of the inverse
\* Mercator latitude in thousandths of a degree (within a degree for
\* |y| <= 4000000).
LatMilli(a) ==
  LET t == (a * 100) \div 11132
      c == t \div 100
  IN  t - (c * c * c) \div 19697

Lat(y) == Sign(y) * RoundDiv(LatMilli(Abs(y)), 1000)

\* Mutant of Forward: proj4('EPSG:4326', 'EPSG:4326'), a conversion between
\* the same two systems.
ForwardSameCrs(x, y) ==
  IF IsFinite(x) /\ IsFinite(y) THEN Arr(<<x, y>>) ELSE Throw

\* toWGS84.forward([x, y]): proj4 refuses a coordinate that is not a finite
\* number with a TypeError.
Forward(x, y) ==
  IF IsFinite(x) /\ IsFinite(y) THEN Arr(<<Num(Lon(x.v)), Num(Lat(y.v))>>)
  ELSE Throw

----------------------------------------------------------------------------
(* geom_transfer.ts: the helpers that build new values *)

\* Mutant of transformPosition: z ? [lon, lat, z] : [lon, lat], which drops
\* an elevation of 0.
transformPositionTruthyZ(p) ==
  IF ~IsArray(p) THEN Throw
  ELSE LET lonlat == Forward(Elem(p, 0), Elem(p, 1))
           z == Elem(p, 2)
       IN  IF lonlat = Throw THEN Throw
           ELSE IF ~Falsy(z) THEN Arr(<<lonlat.v[1], lonlat.v[2], z>>)
           ELSE Arr(<<lonlat.v[1], lonlat.v[2]>>)

\* Mutant of transformPosition: const [x, z, y] = p, which reads a
\* 3-element position in the order (x, z, y).
transformPositionAxisOrder(p) ==
  IF ~IsArray(p) THEN Throw
  ELSE LET x == Elem(p, 0)
           y == IF Elem(p, 2) # Undef THEN Elem(p, 2) ELSE Elem(p, 1)
           z == IF Elem(p, 2) # Undef THEN Elem(p, 1) ELSE Undef
           lonlat == Forward(x, y)
       IN  IF lonlat = Throw THEN Throw
           ELSE IF z # Undef THEN Arr(<<lonlat.v[1], lonlat.v[2], z>>)
           ELSE Arr(<<lonlat.v[1], lonlat.v[2]>>)

transformPosition(p) ==
  IF ~IsArray(p) THEN Throw
  ELSE LET x == Elem(p, 0)
           y == Elem(p, 1)
           z == Elem(p, 2)
           lonlat == Forward(x, y)
       IN  IF lonlat = Throw THEN Throw
           ELSE IF z # Undef THEN Arr(<<lonlat.v[1], lonlat.v[2], z>>)
           ELSE Arr(<<lonlat.v[1], lonlat.v[2]>>)

transformRing(ring) == Map(transformPosition, ring)

\* Mutant of transformPoly: poly.map(transformPosition), a MultiPolygon
\* walked at the depth of a Polygon.
transformPolyAsRing(poly) == Map(transformPosition, poly)

transformPoly(poly) == Map(transformRing, poly)

\* Mutant of transformCoords: case 'MultiPoint' alone, 'LineString' left to
\* the default.
transformCoordsNoLineString(type, coords) ==
  CASE type = Str("Point") -> transformPosition(coords)
    [] type = Str("MultiPoint") -> Map(transformPosition, coords)
    [] type \in {Str("MultiLineString"), Str("Polygon")} ->
         Map(transformRing, coords)
    [] type = Str("MultiPolygon") -> Map(transformPoly, coords)
    [] type = Str("GeometryCollection") -> coords
    [] OTHER -> coords

transformCoords(type, coords) ==
  CASE type = Str("Point") -> transformPosition(coords)
    [] type \in {Str("MultiPoint"), Str("LineString")} ->
         Map(transformPosition, coords)
    [] type \in {Str("MultiLineString"), Str("Polygon")} ->
         Map(transformRing, coords)
    [] type = Str("MultiPolygon") -> Map(transformPoly, coords)
    [] type = Str("GeometryCollection") -> coords
    [] OTHER -> coords

\* Mutant of transformGeometryTo4326: geometries: geom.geometries, the
\* children of a collection copied as they are.
transformGeometryShallow(geom) ==
  IF Falsy(geom) THEN geom
  ELSE IF /\ Get(geom, "type") = Str("GeometryCollection")
          /\ IsArray(Get(geom, "geometries"))
  THEN Obj([type |-> Str("GeometryCollection"),
            geometries |-> Get(geom, "geometries")])
  ELSE LET coordinates == transformCoords(Get(geom, "type"),
                                          Get(geom, "coordinates"))
       IN  IF coordinates = Throw THEN Throw
           ELSE SpreadWith(geom, "coordinates", coordinates)

RECURSIVE transformGeometryTo4326(_)
transformGeometryTo4326(geom) ==
  IF Falsy(geom) THEN geom
  ELSE IF /\ Get(geom, "type") = Str("GeometryCollection")
          /\ IsArray(Get(geom, "geometries"))
  THEN LET geometries == Map(transformGeometryTo4326, Get(geom, "geometries"))
       IN  IF geometries = Throw THEN Throw
           ELSE Obj([type |-> Str("GeometryCollection"),
                     geometries |-> geometries])
  ELSE LET coordinates == transformCoords(Get(geom, "type"),
                                          Get(geom, "coordinates"))
       IN  IF coordinates = Throw THEN Throw
           ELSE SpreadWith(geom, "coordinates", coordinates)

----------------------------------------------------------------------------
(* The heap of the objects that are written after they are built *)

Ref(a) == [k |-> "ref", v |-> a]

\* o.key, o a reference or an inline value
Field(h, o, key) ==
  IF o.k = "ref"
  THEN IF key \in DOMAIN h[o.v] THEN h[o.v][key] ELSE Undef
  ELSE Get(o, key)

\* the object a reference points to, as a value
Inline(h, o) == IF o.k = "ref" THEN Obj(h[o.v]) ELSE o

\* out.key = val
Store(h, out, key, val) == [h EXCEPT ![out.v] = (key :> val) @@ @]

\* delete out.key
Remove(h, out, key) ==
  [h EXCEPT ![out.v] = [f \in DOMAIN @ \ {key} |-> @[f]]]

\* Mutant of SpreadInto: const out = Object.assign(o, { key: val }), which
\* writes to o and returns it.
AliasInto(h, o, key, val) ==
  [h |-> IF o.k = "ref" THEN Store(h, o, key, val) ELSE h, r |-> o]

\* Mutant of SpreadInto: const out = Object.assign(scratch, o, { key: val })
\* with one scratch object kept by the module, the first object of the heap.
SpreadIntoScratch(h, o, key, val) ==
  [h |-> [h EXCEPT ![1] = SpreadWith(Inline(h, o), key, val).v @@ @],
   r |-> Ref(1)]

\* const out = { ...o, key: val }: a new object
SpreadInto(h, o, key, val) ==
  [h |-> Append(h, SpreadWith(Inline(h, o), key, val).v),
   r |-> Ref(Len(h) + 1)]

\* a value with every reference in it replaced by the object it points to
RECURSIVE Deep(_, _)
Deep(h, v) ==
  CASE v.k = "ref" -> Obj([f \in DOMAIN h[v.v] |-> Deep(h, h[v.v][f])])
    [] v.k = "obj" -> Obj([f \in DOMAIN v.v |-> Deep(h, v.v[f])])
    [] v.k = "arr" -> Arr([i \in DOMAIN v.v |-> Deep(h, v.v[i])])
    [] OTHER -> v

----------------------------------------------------------------------------
(* geom_transfer.ts: the helpers that write to the object they return *)

\* Mutant of bboxTo4326: the box recomputed as the envelope of the two
\* reprojected corners, smaller values first.
bboxEnvelope(bbox) ==
  LET min == Forward(Elem(bbox, 0), Elem(bbox, 1))
      max == Forward(Elem(bbox, 2), Elem(bbox, 3))
      Lo(a, b) == IF a.v <= b.v THEN a ELSE b
      Hi(a, b) == IF a.v <= b.v THEN b ELSE a
  IN  IF min = Throw \/ max = Throw THEN Throw
      ELSE Arr(<<Lo(min.v[1], max.v[1]), Lo(min.v[2], max.v[2]),
                 Hi(min.v[1], max.v[1]), Hi(min.v[2], max.v[2])>>)

\* [minX, minY, maxX, maxY] -> [minLon, minLat, maxLon, maxLat]
bboxTo4326(bbox) ==
  LET min == Forward(Elem(bbox, 0), Elem(bbox, 1))
      max == Forward(Elem(bbox, 2), Elem(bbox, 3))
  IN  IF min = Throw \/ max = Throw THEN Throw
      ELSE Arr(<<min.v[1], min.v[2], max.v[1], max.v[2]>>)

\* The end of both helpers: the bbox of src reprojected into out, the crs of
\* out deleted, out returned.
finishOut(h, src, out) ==
  LET bbox == Field(h, src, "bbox")
      rewrite == IsArray(bbox) /\ Len(bbox.v) >= 4
      box == IF rewrite THEN bboxTo4326(bbox) ELSE Undef
      h1 == IF rewrite /\ box # Throw THEN Store(h, out, "bbox", box) ELSE h
      h2 == IF ~Falsy(Field(h1, out, "crs")) THEN Remove(h1, out, "crs") ELSE h1
  IN  IF box = Throw THEN [h |-> h, r |-> Throw] ELSE [h |-> h2, r |-> out]

\* Mutant of reprojectFeature: a Feature built from the members GeoJSON
\* names, { type: 'Feature', geometry, properties: feature.properties }.
reprojectFeatureBare(h, feature) ==
  LET geometry == transformGeometryTo4326(Field(h, feature, "geometry"))
      bare == Obj([type |-> Str("Feature"), geometry |-> geometry,
                   properties |-> Field(h, feature, "properties")])
  IN  IF geometry = Throw THEN [h |-> h, r |-> Throw]
      ELSE Bind(LAMBDA o : finishOut(o.h, feature, o.r),
                SpreadInto(h, bare, "geometry", geometry))

\* transformFeatureTo4326 past its guard
reprojectFeature(h, feature) ==
  LET geometry == transformGeometryTo4326(Field(h, feature, "geometry"))
  IN  IF geometry = Throw THEN [h |-> h, r |-> Throw]
      ELSE Bind(LAMBDA o : finishOut(o.h, feature, o.r),
                SpreadInto(h, feature, "geometry", geometry))

\* Mutant of transformFeatureTo4326: if (feature.type !== 'Feature') return
\* feature, which reads a property of null or undefined.
transformFeatureNoNullGuard(h, feature) ==
  IF Falsy(feature) THEN [h |-> h, r |-> Throw]
  ELSE IF Field(h, feature, "type") # Str("Feature")
  THEN [h |-> h, r |-> feature]
  ELSE reprojectFeature(h, feature)

\* Mutant of transformFeatureTo4326: if (!feature) return feature, with no
\* test of the type tag.
transformFeatureNoTypeGuard(h, feature) ==
  IF Falsy(feature) THEN [h |-> h, r |-> feature]
  ELSE reprojectFeature(h, feature)

transformFeatureTo4326(h, feature) ==
  IF Falsy(feature) \/ Field(h, feature, "type") # Str("Feature")
  THEN [h |-> h, r |-> feature]
  ELSE reprojectFeature(h, feature)

\* Mutant of mapFeatures: features.filter(f => f && f.type === 'Feature')
\* .map(transformFeatureTo4326), which drops what is no Feature.
RECURSIVE mapFeaturesOnly(_, _)
mapFeaturesOnly(h, features) ==
  IF features = <<>> THEN [h |-> h, r |-> Arr(<<>>)]
  ELSE IF \/ Falsy(Head(features))
          \/ Field(h, Head(features), "type") # Str("Feature")
  THEN mapFeaturesOnly(h, Tail(features))
  ELSE Bind(LAMBDA first :
              IF first.r = Throw THEN first
              ELSE Bind(LAMBDA rest :
                          IF rest.r = Throw THEN rest
                          ELSE [h |-> rest.h, r |-> Arr(<<first.r>> \o rest.r.v)],
                        mapFeaturesOnly(first.h, Tail(features))),
            transformFeatureTo4326(h, Head(features)))

\* features.map(transformFeatureTo4326), on the heap each call leaves
RECURSIVE mapFeatures(_, _)
mapFeatures(h, features) ==
  IF features = <<>> THEN [h |-> h, r |-> Arr(<<>>)]
  ELSE Bind(LAMBDA first :
              IF first.r = Throw THEN first
              ELSE Bind(LAMBDA rest :
                          IF rest.r = Throw THEN rest
                          ELSE [h |-> rest.h, r |-> Arr(<<first.r>> \o rest.r.v)],
                        mapFeatures(first.h, Tail(features))),
            transformFeatureTo4326(h, Head(features)))

\* the FeatureCollection branch of transformFeatureCollectionTo4326
reprojectCollection(h, fc) ==
  Bind(LAMBDA features :
         IF features.r = Throw THEN features
         ELSE Bind(LAMBDA o : finishOut(o.h, fc, o.r),
                   SpreadInto(features.h, fc, "features", features.r)),
       mapFeatures(h, Field(h, fc, "features").v))

transformFeatureCollectionTo4326(h, fc) ==
  IF Falsy(fc) THEN [h |-> h, r |-> fc]
  ELSE IF /\ Field(h, fc, "type") = Str("FeatureCollection")
          /\ IsArray(Field(h, fc, "features"))
  THEN reprojectCollection(h, fc)
  ELSE IF Field(h, fc, "type") = Str("Feature")
  THEN transformFeatureTo4326(h, fc)
  ELSE IF ~Falsy(Field(h, fc, "type")) /\ ~Falsy(Field(h, fc, "coordinates"))
  THEN [h |-> h, r |-> transformGeometryTo4326(Inline(h, fc))]
  ELSE [h |-> h, r |-> fc]

----------------------------------------------------------------------------
(* The values the helpers are called with *)

MaxLen == 2
MaxParts == 2
MaxFeatures == 2

Seqs(S, n) == UNION {[1..m -> S] : m \in 0..n}

Coords == {0 - 3000000, 0, 1000000}
Elevations == {0, 7}

Pos(x, y) == Arr(<<Num(x), Num(y)>>)
PosZ(x, y, z) == Arr(<<Num(x), Num(y), Num(z)>>)

\* type Position
Positions ==
  {Pos(x, y) : x \in Coords, y \in Coords}
    \cup {PosZ(c[1], c[2], z) : c \in Coords \X Coords, z \in Elevations}

\* tuples that are no Position
BadPositions ==
  {Arr(<<Num(1000000)>>), Arr(<<Num(0), Num(0), Num(7), Num(1)>>),
   Arr(<<Num(0), Str("1")>>), Null}

P2 == Pos(1000000, 0 - 3000000)
P3 == PosZ(0 - 3000000, 1000000, 0)
Origin == Pos(0, 0)

\* Position[], Position[][] and Position[][][]
Lines == {Arr(s) : s \in Seqs({P2, P3}, MaxLen)}
RingLists == {Arr(s) : s \in Seqs(Lines, MaxParts)}
PolyLists ==
  {Arr(s) : s \in Seqs({r \in RingLists : Len(r.v) <= 1}, MaxParts)}

DepthOf(type) ==
  CASE type = "Point" -> 0
    [] type \in {"MultiPoint", "LineString"} -> 1
    [] type \in {"MultiLineString", "Polygon"} -> 2
    [] type = "MultiPolygon" -> 3

CoordKinds ==
  {"Point", "MultiPoint", "LineString", "MultiLineString", "Polygon",
   "MultiPolygon"}

\* the coordinate structures of the depth a kind implies
CoordsOf(type) ==
  CASE DepthOf(type) = 0 -> Positions
    [] DepthOf(type) = 1 -> Lines
    [] DepthOf(type) = 2 -> RingLists
    [] DepthOf(type) = 3 -> PolyLists

CoordsArgs ==
  {<<Str(t), c>> : t \in {"Point"}, c \in Positions \cup BadPositions}
    \cup {<<Str(t), c>> : t \in {"MultiPoint", "LineString"}, c \in Lines}
    \cup {<<Str(t), c>> : t \in {"MultiLineString", "Polygon"}, c \in RingLists}
    \cup {<<Str(t), c>> : t \in {"MultiPolygon"}, c \in PolyLists}
    \cup {<<t, c>> : t \in {Str("GeometryCollection"), Str("Circle"), Undef},
                     c \in {Undef, Null, Num(5), P2, Arr(<<P3>>)}}
    \cup {<<Str("Polygon"), Arr(<<P2>>)>>, <<Str("LineString"), Undef>>}

\* the object o with the fields of extra added
With(o, extra) == Obj(extra @@ o.v)

Geom(type, coords) == Obj([type |-> Str(type), coordinates |-> coords])

GC(children) ==
  Obj([type |-> Str("GeometryCollection"), geometries |-> Arr(children)])

Box2 == Arr(<<Num(0), Num(1000000)>>)
Box4 == Arr(<<Num(0), Num(0), Num(1000000), Num(0 - 3000000)>>)
Box6 ==
  Arr(<<Num(0), Num(0), Num(7), Num(1000000), Num(0 - 3000000), Num(7)>>)

Polygon == Geom("Polygon", Arr(<<Arr(<<P2, P3, P2>>)>>))

BaseGeoms ==
  {Geom("Point", P2), Geom("Point", P3), Geom("MultiPoint", Arr(<<>>)),
   Geom("LineString", Arr(<<P2, P3>>)), Polygon,
   Geom("MultiLineString", Arr(<<Arr(<<P3>>), Arr(<<>>)>>)),
   Geom("MultiPolygon", Arr(<<Arr(<<Arr(<<P3, P2>>)>>)>>)),
   Geom("Circle", P2), Geom("Point", Origin),
   Geom("LineString", Arr(<<Origin, PosZ(0, 0, 7)>>))}

GCChildren ==
  {Geom("Point", P2), With(Polygon, [bbox |-> Box4]), Null,
   GC(<<Geom("Point", P3)>>)}

GeomColls == {GC(s) : s \in Seqs(GCChildren, MaxParts)}

GeomExtras == {<<>>, [bbox |-> Box4], [bbox |-> Box6, name |-> Str("field")]}

Geometries == {With(g, e) : g \in BaseGeoms \cup GeomColls, e \in GeomExtras}

BadGeometries ==
  {Geom("Point", Arr(<<Num(0)>>)), Geom("LineString", Null),
   Obj([type |-> Str("GeometryCollection"), geometries |-> Null]),
   Obj([type |-> Str("Point")]),
   GC(<<Geom("Polygon", Arr(<<P2>>))>>),
   Geom("Point", Arr(<<Num(0), Num(0), Num(7), Num(1)>>))}

\* the empty geometry of each kind: { type, coordinates: [] }
EmptyGeometries == {Geom(t, Arr(<<>>)) : t \in CoordKinds}

GeometryArgs ==
  Geometries \cup EmptyGeometries \cup BadGeometries \cup {Null, Undef}

Feat(geometry) ==
  Obj([type |-> Str("Feature"), geometry |-> geometry,
       properties |-> Obj([crop |-> Str("wheat")])])

Crs == Obj([type |-> Str("name")])

FeatGeoms ==
  {Geom("Point", P2), With(Polygon, [bbox |-> Box4]),
   GC(<<Geom("Point", P3), Polygon>>), Null, Geom("Point", Origin)}

FeatBoxes == {<<>>, [bbox |-> Box4], [bbox |-> Box6], [bbox |-> Box2]}

FeatCrs == {<<>>, [crs |-> Crs], [crs |-> Null], [crs |-> Num(0)]}

Features ==
  {With(With(Feat(g), b), c) : g \in FeatGeoms, b \in FeatBoxes, c \in FeatCrs}

NotAFeature ==
  Obj([type |-> Str("NotAFeature"), geometry |-> Geom("Point", P2),
       bbox |-> Box4, crs |-> Crs])

NonFeatures ==
  {Null, Undef, Num(5), Str("Feature"), Arr(<<P2>>), NotAFeature,
   Obj([type |-> Str("NotAFeature")]),
   Obj([geometry |-> Geom("Point", P2), bbox |-> Box4]),
   With(Geom("Point", P2), [crs |-> Crs])}

BadFeatures ==
  {Feat(Geom("Point", Arr(<<Num(0)>>))),
   With(Feat(Null), [bbox |-> Arr(<<Num(0), Num(0), Null, Num(0)>>)])}

\* Features with members of their own
OwnMembers == [id |-> Num(5), name |-> Str("field")]

FeaturesWithMembers ==
  {With(Feat(Geom("Point", P2)), OwnMembers),
   With(Feat(Null), [bbox |-> Box4, crs |-> Crs] @@ OwnMembers)}

FeatureArgs ==
  Features \cup FeaturesWithMembers \cup NonFeatures \cup BadFeatures

FC(features) ==
  Obj([type |-> Str("FeatureCollection"), features |-> Arr(features)])

FCElems ==
  {Feat(Geom("Point", P2)), With(Feat(Polygon), [bbox |-> Box4, crs |-> Crs]),
   NotAFeature, Null}

FeatureLists == Seqs(FCElems, MaxFeatures)

FCExtras ==
  {<<>>, [bbox |-> Box4], [bbox |-> Box6, crs |-> Null],
   [bbox |-> Box4, crs |-> Crs, name |-> Str("field")], [crs |-> Num(0)]}

Collections == {With(FC(fs), e) : fs \in FeatureLists, e \in FCExtras}

\* the { count, features } framing of the extraction script
Framings ==
  {Obj([count |-> Num(Len(fs)), features |-> Arr(fs)]) : fs \in FeatureLists}

BadCollections ==
  {Obj([type |-> Str("FeatureCollection"), features |-> Null]),
   Obj([type |-> Str("FeatureCollection"), features |-> Null,
        coordinates |-> P2]),
   With(FC(<<>>), [coordinates |-> P2]),
   FC(<<Feat(Geom("Point", Arr(<<Num(0)>>)))>>),
   FC(<<Feat(Geom("Point", P2)), Feat(Geom("LineString", Num(1)))>>)}

CollectionArgs ==
  Collections \cup Framings \cup BadCollections \cup FeatureArgs
    \cup GeometryArgs

\* what the extraction script can print that JSON.parse accepts: a value
\* without undefined in it
JsonValues == CollectionArgs \ {Undef}

\* The end of execFileAsync('python', ...): the promise rejects (python not
\* found, a non-zero exit, more output than maxBuffer), or resolves with a
\* stdout that is blank, that is no JSON text, or that is the JSON text of a
\* value.
NotSettled == [k |-> "pending"]
Rejected == [k |-> "rejected"]
Blank == [k |-> "blank"]
NoJson == [k |-> "nojson"]
JsonOf(v) == [k |-> "json", v |-> v]

Settlements == {Rejected, Blank, NoJson} \cup {JsonOf(v) : v \in JsonValues}

\* a query string as its characters; req.query.coordinates is undefined when
\* the parameter is missing and an array when it is given twice
Text(chars) == [k |-> "text", v |-> chars]

QueryValues ==
  {Undef, Arr(<<Text(<<"1">>), Text(<<"2">>)>>), Text(<<>>),
   Text(<<" ", " ">>), Text(<<" ", "1", " ", "2", " ">>), Text(<<"1", "2">>)}

\* the requests served at the same time
MaxRequests == 2
Requests == 1..MaxRequests

\* what the script prints for the requests served at the same time
ConcurrentSettlements ==
  {Rejected, Blank, NoJson,
   JsonOf(With(FC(<<Feat(Geom("Point", P2))>>),
               [bbox |-> Box4, crs |-> Crs, name |-> Str("field")])),
   JsonOf(FC(<<NotAFeature, With(Feat(Polygon), [bbox |-> Box4])>>)),
   JsonOf(With(Feat(Geom("Point", P3)), OwnMembers)),
   JsonOf(Obj([count |-> Num(1), features |-> Arr(<<Feat(Null)>>)])),
   JsonOf(FC(<<Feat(Geom("Point", P2)), Feat(Geom("LineString", Num(1)))>>))}

\* the heap when the modules are loaded: the converter of geom_transfer.ts
ModuleState ==
  <<[from |-> Str("EPSG:3857"), to |-> Str("EPSG:4326")]>>

\* a request: where its handler is, how its script ended, what it sent, and
\* the payload it answered with
Waiting ==
  [handler |-> "idle", settled |-> NotSettled, sent |-> <<>>,
   payload |-> Undef]

\* a request of the hook, as it is sent
Fetch(kind, param) ==
  [kind |-> kind, param |-> param, isMounted |-> TRUE, state |-> "pending"]

\* The object graph the caller holds: the argument and the elements of its
\* features array are objects of the heap.
ObjectsIn(s) == {i \in DOMAIN s : s[i].k = "obj"}

AddressOf(s, i) == 1 + Cardinality({j \in ObjectsIn(s) : j <= i})

Load(v) ==
  IF v.k # "obj" THEN [h |-> <<>>, r |-> v]
  ELSE IF ~IsArray(Get(v, "features")) THEN [h |-> <<v.v>>, r |-> Ref(1)]
  ELSE LET s == Get(v, "features").v
           refs == [i \in DOMAIN s |->
                      IF s[i].k = "obj" THEN Ref(AddressOf(s, i)) ELSE s[i]]
           elems == [a \in 1..Cardinality(ObjectsIn(s)) |->
                       LET i == CHOOSE j \in ObjectsIn(s) : AddressOf(s, j) = a + 1
                       IN  s[i].v]
       IN  [h |-> <<("features" :> Arr(refs)) @@ v.v>> \o elems, r |-> Ref(1)]

----------------------------------------------------------------------------
(* The calls: one call of one helper on one argument *)

Init ==
  /\ fn = "none"
  /\ given = <<>>
  /\ arg = <<>>
  /\ ret = Undef
  /\ heap = <<>>
  /\ handler = "idle"
  /\ query = Undef
  /\ resolved = "no"
  /\ spawned = <<>>
  /\ settled = NotSettled
  /\ sent = <<>>
  /\ inflight = [r \in Requests |-> Waiting]
  /\ process = ModuleState
  /\ mounted = TRUE
  /\ countries = <<>>
  /\ selectedCountry = ""
  /\ selectedRegion = Null
  /\ regionsData = <<>>
  /\ mapView = Null
  /\ sowingMap = Null
  /\ suggestions = <<>>
  /\ isSuggesting = FALSE
  /\ fetches = <<Fetch("countries", "")>>
  /\ warnings = 0

CallTransformPosition ==
  /\ fn = "none"
  /\ UNCHANGED <<handlerVars, concurrentVars, hookVars>>
  /\ \E p \in Positions \cup BadPositions :
    /\ fn' = "transformPosition"
    /\ given' = <<p>>
    /\ arg' = <<p>>
    /\ ret' = transformPosition(p)
    /\ heap' = <<>>

CallTransformCoords ==
  /\ fn = "none"
  /\ UNCHANGED <<handlerVars, concurrentVars, hookVars>>
  /\ \E a \in CoordsArgs :
    /\ fn' = "transformCoords"
    /\ given' = a
    /\ arg' = a
    /\ ret' = transformCoords(a[1], a[2])
    /\ heap' = <<>>

CallTransformGeometryTo4326 ==
  /\ fn = "none"
  /\ UNCHANGED <<handlerVars, concurrentVars, hookVars>>
  /\ \E geom \in GeometryArgs :
    /\ fn' = "transformGeometryTo4326"
    /\ given' = <<geom>>
    /\ arg' = <<geom>>
    /\ ret' = transformGeometryTo4326(geom)
    /\ heap' = <<>>

CallTransformFeatureTo4326 ==
  /\ fn = "none"
  /\ UNCHANGED <<handlerVars, concurrentVars, hookVars>>
  /\ \E feature \in FeatureArgs :
    \E l \in {Load(feature)} :
      \E res \in {transformFeatureTo4326(l.h, l.r)} :
        /\ fn' = "transformFeatureTo4326"
        /\ given' = <<feature>>
        /\ arg' = <<l.r>>
        /\ ret' = res.r
        /\ heap' = res.h

CallTransformFeatureCollectionTo4326 ==
  /\ fn = "none"
  /\ UNCHANGED <<handlerVars, concurrentVars, hookVars>>
  /\ \E fc \in CollectionArgs :
    \E l \in {Load(fc)} :
      \E res \in {transformFeatureCollectionTo4326(l.h, l.r)} :
        /\ fn' = "transformFeatureCollectionTo4326"
        /\ given' = <<fc>>
        /\ arg' = <<l.r>>
        /\ ret' = res.r
        /\ heap' = res.h

Next ==
  \/ CallTransformPosition
  \/ CallTransformCoords
  \/ CallTransformGeometryTo4326
  \/ CallTransformFeatureTo4326
  \/ CallTransformFeatureCollectionTo4326

Spec == Init /\ [][Next]_vars

----------------------------------------------------------------------------
(* DashboardController.ts: GET /sowingmap *)

\* String.prototype.trim
RECURSIVE TrimStart(_)
TrimStart(chars) ==
  IF chars # <<>> /\ Head(chars) = " " THEN TrimStart(Tail(chars)) ELSE chars

RECURSIVE TrimEnd(_)
TrimEnd(chars) ==
  IF chars # <<>> /\ chars[Len(chars)] = " "
  THEN TrimEnd(SubSeq(chars, 1, Len(chars) - 1))
  ELSE chars

Trim(chars) == TrimEnd(TrimStart(chars))

\* JSON.stringify, as res.json applies it, then JSON.parse by the client: a
\* field whose value is undefined is left out, an undefined element of an
\* array becomes null
RECURSIVE Serialise(_)
Serialise(v) ==
  CASE v.k = "obj" ->
         Obj([f \in {g \in DOMAIN v.v : v.v[g] # Undef} |-> Serialise(v.v[f])])
    [] v.k = "arr" ->
         Arr([i \in DOMAIN v.v |->
                IF v.v[i] = Undef THEN Null ELSE Serialise(v.v[i])])
    [] OTHER -> v

\* res.status(status).json(body), after res.set('Cache-Control', ...) or not
Response(status, body, cacheControl) ==
  [status |-> status, body |-> body, cacheControl |-> cacheControl]

ErrorBody(message) == Obj([error |-> Str(message)])

CoordinatesRequired ==
  Response(400, ErrorBody("coordinates query parameter is required"), "")

ScriptNotFound ==
  Response(500,
           ErrorBody("Server misconfiguration: helper script not found"), "")

Failed == Response(500, ErrorBody("Failed to retrieve sowing map data"), "")

\* stdout.trim() ? JSON.parse(stdout.trim()) : { count: 0, features: [] }
rawPayload(settlement) ==
  CASE settlement = Blank -> Obj([count |-> Num(0), features |-> Arr(<<>>)])
    [] settlement = NoJson -> Throw
    [] OTHER -> settlement.v

\* transformFeatureCollectionTo4326(rawPayload), as the value it returns
payload4326(raw) ==
  Bind(LAMBDA l :
         Bind(LAMBDA res : IF res.r = Throw THEN Throw ELSE Deep(res.h, res.r),
              transformFeatureCollectionTo4326(l.h, l.r)),
       Load(raw))

\* Mutant of answer: the catch around the reprojection alone, answering with
\* the payload as the script printed it.
answerUnprojected(settlement) ==
  IF settlement = Rejected \/ rawPayload(settlement) = Throw THEN Failed
  ELSE IF payload4326(rawPayload(settlement)) = Throw
  THEN Response(200, Serialise(rawPayload(settlement)), "max-age=3600")
  ELSE Response(200, Serialise(payload4326(rawPayload(settlement))),
                "max-age=3600")

\* the try block after the await, and its catch
answer(settlement) ==
  IF settlement = Rejected \/ rawPayload(settlement) = Throw THEN Failed
  ELSE IF payload4326(rawPayload(settlement)) = Throw THEN Failed
  ELSE Response(200, Serialise(payload4326(rawPayload(settlement))),
                "max-age=3600")

\* Mutant of GetSowingMap: resolveSowingMapScript() called ahead of the
\* test of the parameter.
GetSowingMapResolvingFirst ==
  /\ handler = "idle"
  /\ UNCHANGED <<helperVars, concurrentVars, hookVars, settled>>
  /\ \E coordinates \in QueryValues, found \in BOOLEAN :
       /\ query' = coordinates
       /\ resolved' = IF found THEN "found" ELSE "missing"
       /\ IF ~found
          THEN /\ sent' = <<ScriptNotFound>>
               /\ handler' = "done"
               /\ spawned' = <<>>
          ELSE IF coordinates.k # "text" \/ Trim(coordinates.v) = <<>>
          THEN /\ sent' = <<CoordinatesRequired>>
               /\ handler' = "done"
               /\ spawned' = <<>>
          ELSE /\ sent' = <<>>
               /\ handler' = "awaiting"
               /\ spawned' = <<"--coordinates", Trim(coordinates.v)>>

\* The handler up to the await: the parameter is validated, the script is
\* looked up on the disk, the script is started.
GetSowingMap ==
  /\ handler = "idle"
  /\ UNCHANGED <<helperVars, concurrentVars, hookVars, settled>>
  /\ \E coordinates \in QueryValues, found \in BOOLEAN :
       /\ query' = coordinates
       /\ IF coordinates.k # "text" \/ Trim(coordinates.v) = <<>>
          THEN /\ sent' = <<CoordinatesRequired>>
               /\ handler' = "done"
               /\ resolved' = "no"
               /\ spawned' = <<>>
          ELSE IF ~found
          THEN /\ sent' = <<ScriptNotFound>>
               /\ handler' = "done"
               /\ resolved' = "missing"
               /\ spawned' = <<>>
          ELSE /\ sent' = <<>>
               /\ handler' = "awaiting"
               /\ resolved' = "found"
               /\ spawned' = <<"--coordinates", Trim(coordinates.v)>>

\* The handler after the await: the script has ended, the payload is parsed
\* and reprojected, the response is sent.
ScriptSettles ==
  /\ handler = "awaiting"
  /\ UNCHANGED <<helperVars, concurrentVars, hookVars, query, resolved, spawned>>
  /\ \E settlement \in Settlements :
       /\ settled' = settlement
       /\ sent' = Append(sent, answer(settlement))
       /\ handler' = "done"

SowingMapNext ==
  \/ GetSowingMap
  \/ ScriptSettles

SowingMapSpec == Init /\ [][SowingMapNext]_vars

----------------------------------------------------------------------------
(* GET /sowingmap requests served at the same time *)

\* the value v with every address in it moved up by n
RECURSIVE Moved(_, _)
Moved(v, n) ==
  CASE v.k = "ref" -> Ref(v.v + n)
    [] v.k = "obj" -> Obj([f \in DOMAIN v.v |-> Moved(v.v[f], n)])
    [] v.k = "arr" -> Arr([i \in DOMAIN v.v |-> Moved(v.v[i], n)])
    [] OTHER -> v

\* JSON.parse in a process whose heap is h: the objects of the payload are
\* new objects of the heap
LoadAt(h, v) ==
  LET l == Load(v)
  IN  [h |-> h \o [a \in DOMAIN l.h |->
                     [f \in DOMAIN l.h[a] |-> Moved(l.h[a][f], Len(h))]],
       r |-> Moved(l.r, Len(h))]

\* The try block after the await, in a process whose heap is h: the
\* response, the heap it leaves and the payload it answered with.
answerAt(h, settlement) ==
  IF settlement = Rejected \/ rawPayload(settlement) = Throw
  THEN [h |-> h, sent |-> Failed, payload |-> Undef]
  ELSE Bind(LAMBDA l :
              Bind(LAMBDA res :
                     IF res.r = Throw
                     THEN [h |-> res.h, sent |-> Failed, payload |-> Undef]
                     ELSE [h |-> res.h,
                           sent |-> Response(200,
                                             Serialise(Deep(res.h, res.r)),
                                             "max-age=3600"),
                           payload |-> res.r],
                   transformFeatureCollectionTo4326(l.h, l.r)),
            LoadAt(h, rawPayload(settlement)))

\* a request arrives and its script is started
Arrive(r) ==
  /\ inflight[r].handler = "idle"
  /\ inflight' = [inflight EXCEPT ![r].handler = "awaiting"]
  /\ UNCHANGED <<helperVars, handlerVars, hookVars, process>>

\* the script of a request ends, and the request is answered
Settle(r) ==
  /\ inflight[r].handler = "awaiting"
  /\ \E settlement \in ConcurrentSettlements :
       \E a \in {answerAt(process, settlement)} :
         /\ inflight' = [inflight EXCEPT ![r] =
                           [handler |-> "done", settled |-> settlement,
                            sent |-> <<a.sent>>, payload |-> a.payload]]
         /\ process' = a.h
  /\ UNCHANGED <<helperVars, handlerVars, hookVars>>

ConcurrentNext ==
  \/ \E r \in Requests : Arrive(r)
  \/ \E r \in Requests : Settle(r)

ConcurrentSpec == Init /\ [][ConcurrentNext]_vars

----------------------------------------------------------------------------
(* DashboardController.ts: GET /topic *)

Digits == <<"0", "1", "2", "3", "4", "5", "6", "7", "8", "9">>

IsDigit(c) == \E d \in DOMAIN Digits : Digits[d] = c

DigitValue(c) == (CHOOSE d \in DOMAIN Digits : Digits[d] = c) - 1

\* the longest prefix of chars made of digits
RECURSIVE LeadingDigits(_)
LeadingDigits(chars) ==
  IF chars # <<>> /\ IsDigit(Head(chars))
  THEN <<Head(chars)>> \o LeadingDigits(Tail(chars))
  ELSE <<>>

\* the number a sequence of digits writes in base 10
RECURSIVE DecimalValue(_)
DecimalValue(digits) ==
  IF digits = <<>> THEN 0
  ELSE 10 * DecimalValue(SubSeq(digits, 1, Len(digits) - 1))
         + DigitValue(digits[Len(digits)])

NaN == [k |-> "nan"]

\* Number.parseInt(chars, 10): white space skipped, a sign, then the digits
\* up to the first character that is none; NaN when there is no digit
parseInt(chars) ==
  LET body == TrimStart(chars)
      signed == body # <<>> /\ Head(body) \in {"+", "-"}
      digits == LeadingDigits(IF signed THEN Tail(body) ELSE body)
  IN  IF digits = <<>> THEN NaN
      ELSE IF signed /\ Head(body) = "-" THEN Num(0 - DecimalValue(digits))
      ELSE Num(DecimalValue(digits))

\* typeof year === 'string' ? Number.parseInt(year, 10) : Number.NaN
yearNumberOf(year) == IF year.k = "text" THEN parseInt(year.v) ELSE NaN

\* n.toString() for an integer n
RECURSIVE NaturalToString(_)
NaturalToString(n) ==
  IF n < 10 THEN <<Digits[n + 1]>>
  ELSE NaturalToString(n \div 10) \o <<Digits[(n % 10) + 1]>>

IntegerToString(n) ==
  IF n < 0 THEN <<"-">> \o NaturalToString(0 - n) ELSE NaturalToString(n)

\* entry.toLowerCase(), on the letters of the model
LowerCase(c) == CASE c = "A" -> "a" [] c = "B" -> "b" [] OTHER -> c

toLowerCase(chars) == [i \in DOMAIN chars |-> LowerCase(chars[i])]

\* value.split(',')
RECURSIVE Split(_)
Split(chars) ==
  IF \A i \in DOMAIN chars : chars[i] # "," THEN <<chars>>
  ELSE LET at == CHOOSE i \in DOMAIN chars :
                   chars[i] = "," /\ \A j \in 1..(i - 1) : chars[j] # ","
       IN  <<SubSeq(chars, 1, at - 1)>>
             \o Split(SubSeq(chars, at + 1, Len(chars)))

\* addLabel over the entries of one value: each trimmed, the empty ones
\* dropped, one kept that differs from those seen in more than case
RECURSIVE addLabels(_, _)
addLabels(labels, entries) ==
  IF entries = <<>> THEN labels
  ELSE LET entry == Trim(Head(entries))
           seen == {toLowerCase(labels[i]) : i \in DOMAIN labels}
       IN  IF entry = <<>> \/ toLowerCase(entry) \in seen
           THEN addLabels(labels, Tail(entries))
           ELSE addLabels(Append(labels, entry), Tail(entries))

\* processVal: null and undefined skipped, an array walked, a string split
RECURSIVE processVal(_, _)
processVal(labels, value) ==
  IF value \in {Null, Undef} THEN labels
  ELSE IF IsArray(value)
  THEN IF value.v = <<>> THEN labels
       ELSE processVal(processVal(labels, Head(value.v)), Arr(Tail(value.v)))
  ELSE addLabels(labels, Split(value.v))

collectCategoryLabels(input) == processVal(<<>>, input)

\* args.push('--category_label', label) for each label
RECURSIVE labelArgs(_)
labelArgs(labels) ==
  IF labels = <<>> THEN <<>>
  ELSE <<"--category_label", Head(labels)>> \o labelArgs(Tail(labels))

CountryRequired ==
  Response(400, ErrorBody("country query parameter is required"), "")

YearRequired ==
  Response(400, ErrorBody("year query parameter must be a number"), "")

TopicFailed == Response(500, ErrorBody("Failed to retrieve topic data"), "")

\* the try block of GET /topic after the await, and its catch
topicAnswer(settlement) ==
  CASE settlement = Rejected \/ settlement = NoJson -> TopicFailed
    [] settlement = Blank -> Response(200, Obj(<<>>), "")
    [] OTHER -> Response(200, Serialise(settlement.v), "")

\* req.query of GET /topic
CountryValues == {Undef, Text(<<" ">>), Text(<<"H", "U", " ">>)}

YearValues ==
  {Undef, Arr(<<Text(<<"2", "0">>)>>), Text(<<>>), Text(<<"a">>),
   Text(<<"2", "0", "2", "0">>), Text(<<"2", "0", "2", "0", "a", "b", "c">>),
   Text(<<"2", "0", ".", "5">>), Text(<<"-", "5">>), Text(<<" ", "7">>)}

LabelValues ==
  {Undef, Text(<<"a", ",", " ", "A", ",", "b">>),
   Arr(<<Text(<<"B">>), Text(<<",", "b", ",">>)>>)}

TopicQueries ==
  [country : CountryValues, year : YearValues, category_label : LabelValues]

TopicSettlements ==
  {Rejected, Blank, NoJson, JsonOf(Obj([crop |-> Str("wheat")])),
   JsonOf(Arr(<<>>)), JsonOf(Null)}

\* The handler up to the await: the two parameters are validated, the script
\* is looked up, the arguments are built, the script is started.
GetTopic ==
  /\ handler = "idle"
  /\ UNCHANGED <<helperVars, concurrentVars, hookVars, settled>>
  /\ \E q \in TopicQueries, found \in BOOLEAN :
       /\ query' = q
       /\ IF q.country.k # "text" \/ Trim(q.country.v) = <<>>
          THEN /\ sent' = <<CountryRequired>>
               /\ handler' = "done"
               /\ resolved' = "no"
               /\ spawned' = <<>>
          ELSE IF yearNumberOf(q.year) = NaN
          THEN /\ sent' = <<YearRequired>>
               /\ handler' = "done"
               /\ resolved' = "no"
               /\ spawned' = <<>>
          ELSE IF ~found
          THEN /\ sent' = <<ScriptNotFound>>
               /\ handler' = "done"
               /\ resolved' = "missing"
               /\ spawned' = <<>>
          ELSE /\ sent' = <<>>
               /\ handler' = "awaiting"
               /\ resolved' = "found"
               /\ spawned' =
                    <<"--country", Trim(q.country.v), "--year",
                      IntegerToString(yearNumberOf(q.year).v)>>
                      \o labelArgs(collectCategoryLabels(q.category_label))

\* The handler after the await: the output of the script is parsed and sent.
TopicScriptSettles ==
  /\ handler = "awaiting"
  /\ UNCHANGED <<helperVars, concurrentVars, hookVars, query, resolved, spawned>>
  /\ \E settlement \in TopicSettlements :
       /\ settled' = settlement
       /\ sent' = Append(sent, topicAnswer(settlement))
       /\ handler' = "done"

TopicNext ==
  \/ GetTopic
  \/ TopicScriptSettles

TopicSpec == Init /\ [][TopicNext]_vars

(***************************************************************************)
(* The useDashboard hook (client/src/hooks/useDashboard.ts).               *)
(***************************************************************************)

\* the zoom of a map view (config/globals.ts)
TARGET_ZOOM == 10

\* the running extremes of computeCenter and computeBoundingBox before the
\* first point; the four extremes are +-Infinity, and are read only when
\* hasPoint, after the first finite pair has replaced them
NoPoint ==
  [hasPoint |-> FALSE, minLat |-> 0, maxLat |-> 0, minLng |-> 0, maxLng |-> 0]

\* track(lng, lat), the same closure in both functions
track(t, lng, lat) ==
  IF ~IsFinite(lat) \/ ~IsFinite(lng) THEN t
  ELSE [hasPoint |-> TRUE,
        minLat |-> IF ~t.hasPoint \/ lat.v < t.minLat THEN lat.v ELSE t.minLat,
        maxLat |-> IF ~t.hasPoint \/ lat.v > t.maxLat THEN lat.v ELSE t.maxLat,
        minLng |-> IF ~t.hasPoint \/ lng.v < t.minLng THEN lng.v ELSE t.minLng,
        maxLng |-> IF ~t.hasPoint \/ lng.v > t.maxLng THEN lng.v ELSE t.maxLng]

\* ring.forEach(([lng, lat]) => track(lng, lat))
RECURSIVE trackRing(_, _)
trackRing(t, ring) ==
  IF ring = <<>> THEN t
  ELSE trackRing(track(t, Elem(Head(ring), 0), Elem(Head(ring), 1)), Tail(ring))

\* polygon.forEach((ring) => ...)
RECURSIVE trackRings(_, _)
trackRings(t, rings) ==
  IF rings = <<>> THEN t
  ELSE trackRings(trackRing(t, Head(rings).v), Tail(rings))

\* geometry.coordinates.forEach((polygon) => ...)
RECURSIVE trackPolygons(_, _)
trackPolygons(t, polygons) ==
  IF polygons = <<>> THEN t
  ELSE trackPolygons(trackRings(t, Head(polygons).v), Tail(polygons))

\* the walk over the coordinates: rings of a Polygon, and polygons of rings
\* of anything else
trackGeometry(geometry) ==
  IF Get(geometry, "type") = Str("Polygon")
  THEN trackRings(NoPoint, Get(geometry, "coordinates").v)
  ELSE trackPolygons(NoPoint, Get(geometry, "coordinates").v)

\* computeCenter giving the centre as [lng, lat]
computeCenterLngLat(geometry) ==
  IF Falsy(geometry) THEN Null
  ELSE LET t == trackGeometry(geometry)
       IN IF ~t.hasPoint THEN Null
          ELSE Arr(<<Num((t.minLng + t.maxLng) \div 2),
                     Num((t.minLat + t.maxLat) \div 2)>>)

\* computeCenter; the coordinates of the inputs are even, the halves exact
computeCenter(geometry) ==
  IF Falsy(geometry) THEN Null
  ELSE LET t == trackGeometry(geometry)
       IN IF ~t.hasPoint THEN Null
          ELSE Arr(<<Num((t.minLat + t.maxLat) \div 2),
                     Num((t.minLng + t.maxLng) \div 2)>>)

computeBoundingBox(geometry) ==
  IF Falsy(geometry) THEN Null
  ELSE LET t == trackGeometry(geometry)
       IN IF ~t.hasPoint THEN Null
          ELSE Arr(<<Num(t.minLng), Num(t.minLat),
                     Num(t.maxLng), Num(t.maxLat)>>)

\* bounds.join(',')
RECURSIVE Join(_)
Join(numbers) ==
  IF numbers = <<>> THEN <<>>
  ELSE IF Len(numbers) = 1 THEN IntegerToString(Head(numbers).v)
  ELSE IntegerToString(Head(numbers).v) \o <<",">> \o Join(Tail(numbers))

\* The server's answers.  fetchCountries gives id, name and cntr_code of
\* every country; no code is blank, so that fetchRegions sends its request.
KnownCountries ==
  <<[name |-> "A", cntr_code |-> "AA"], [name |-> "B", cntr_code |-> "BB"]>>

\* what the user can put into the country field: nothing, the name of a
\* country of the list, and a name that is not on it
CountryNames == {"", "A", "B", "X"}

\* geometries of regions: a Polygon with a pair that is not finite, a
\* MultiPolygon, a Polygon of one pair, and geometries without a finite pair
RegionPolygon ==
  Geom("Polygon", Arr(<<Arr(<<Pos(2, 4), Pos(6, -8), Arr(<<NaN, Num(40)>>)>>),
                        Arr(<<Pos(4, 0)>>)>>))
RegionMultiPolygon ==
  Geom("MultiPolygon",
       Arr(<<Arr(<<Arr(<<Pos(-4, 10), Pos(0, 12)>>)>>),
             Arr(<<Arr(<<Pos(-2, 20), Arr(<<Num(8), Null>>)>>)>>)>>))
RegionOnePair == Geom("Polygon", Arr(<<Arr(<<Pos(0, 0)>>)>>))
RegionNoPair ==
  Geom("Polygon", Arr(<<Arr(<<Arr(<<Num(2), NaN>>), Arr(<<>>)>>)>>))
RegionNoRing == Geom("MultiPolygon", Arr(<<>>))
RegionGeometries ==
  {RegionPolygon, RegionMultiPolygon, RegionOnePair, RegionNoPair,
   RegionNoRing, Null}

Region(name, geom) == [name_latn |-> name, geom |-> geom]

\* the lists GET /regions can answer: a name can come twice, a geometry can
\* be null
RegionsResponses(cntrCode) ==
  IF cntrCode = "AA"
  THEN {<<Region("a1", RegionPolygon), Region("a2", RegionNoPair),
          Region("a1", RegionOnePair)>>,
        <<Region("a1", RegionMultiPolygon), Region("a2", Null)>>}
  ELSE {<<Region("b1", RegionOnePair), Region("b2", RegionNoRing)>>}

\* the names of the regions of a country
RegionNames(country) ==
  UNION {{list[i].name_latn : i \in DOMAIN list} :
           list \in UNION {RegionsResponses(KnownCountries[c].cntr_code) :
                             c \in {c \in DOMAIN KnownCountries :
                                      KnownCountries[c].name = country}}}

\* a sowing map and a list of suggestions, each with the request it answers
SowingMapOf(request) ==
  [request |-> request,
   data |-> Obj([count |-> Num(0), features |-> Arr(<<>>)])]
ResultsOf(request) == <<[request |-> request]>>

\* how a request ends: with a payload the service accepts, or with a throw
\* (no answer, a status that is not 2xx, a payload of another shape)
Outcomes == {"ok", "error"}

\* the most requests a run sends
MaxFetches == 4
\* the most warnings a run logs
MaxWarnings == 1

\* the clean-up of the effects of the kinds given: isMounted = false
Cleanup(f, kinds) ==
  [i \in DOMAIN f |->
     IF f[i].kind \in kinds THEN [f[i] EXCEPT !.isMounted = FALSE] ELSE f[i]]

\* request i has ended
Ended(f, i, outcome) == [f EXCEPT ![i].state = outcome]

\* acc.some(...) || acc.push(current) over fetchedRegions
RECURSIVE uniqueRegions(_, _)
uniqueRegions(acc, fetchedRegions) ==
  IF fetchedRegions = <<>> THEN acc
  ELSE uniqueRegions(
         IF \E i \in DOMAIN acc :
              acc[i].name_latn = Head(fetchedRegions).name_latn
         THEN acc ELSE Append(acc, Head(fetchedRegions)),
         Tail(fetchedRegions))

\* regionsData.find(...)?.geom ?? null
geomOf(region, data) ==
  IF \E i \in DOMAIN data : Str(data[i].name_latn) = region
  THEN data[CHOOSE i \in DOMAIN data :
              /\ Str(data[i].name_latn) = region
              /\ \A j \in 1..(i - 1) : Str(data[j].name_latn) # region].geom
  ELSE Null

\* the effect on [selectedRegion, regionsData], after the clean-up of its last
\* run: the view, the sowing map and the requests it leaves
sowingMapEffect(region, data, f) ==
  IF Falsy(region)
  THEN [mapView |-> Null, sowingMap |-> Null,
        fetches |-> Cleanup(f, {"sowingmap"})]
  ELSE [mapView |->
          IF computeCenter(geomOf(region, data)) = Null THEN Null
          ELSE Obj([center |-> computeCenter(geomOf(region, data)),
                    zoom |-> Num(TARGET_ZOOM)]),
        sowingMap |-> Null,
        fetches |->
          IF computeBoundingBox(geomOf(region, data)) = Null
          THEN Cleanup(f, {"sowingmap"})
          ELSE Append(Cleanup(f, {"sowingmap"}),
                      Fetch("sowingmap",
                            Join(computeBoundingBox(geomOf(region, data)).v)))]

\* countries.find((country) => country.name === selectedCountry)
Matched(country, list) ==
  country # "" /\ \E i \in DOMAIN list : list[i].name = country
matchedCountry(country, list) ==
  list[CHOOSE i \in DOMAIN list :
         /\ list[i].name = country
         /\ \A j \in 1..(i - 1) : list[j].name # country]

\* the effect on [selectedCountry, countries], after the clean-up of its last
\* run, and the effect on [selectedRegion, regionsData] that follows when one
\* of the two was set: setRegionsData([]) is a new array each time
regionsEffect(country, list, f) ==
  [selectedRegion |-> Null,
   regionsData |-> IF Matched(country, list) THEN regionsData ELSE <<>>,
   mapView |-> Null,
   sowingMap |->
     IF selectedRegion # Null \/ ~Matched(country, list)
     THEN Null ELSE sowingMap,
   fetches |->
     IF ~Matched(country, list)
     THEN Cleanup(f, {"regions", "sowingmap"})
     ELSE Append(IF selectedRegion # Null
                 THEN Cleanup(f, {"regions", "sowingmap"})
                 ELSE Cleanup(f, {"regions"}),
                 Fetch("regions", matchedCountry(country, list).cntr_code))]

\* setSelectedCountry(e.value) of the country field
SelectCountry(c) ==
  /\ mounted
  /\ c # selectedCountry
  /\ Len(regionsEffect(c, countries, fetches).fetches) <= MaxFetches
  /\ selectedCountry' = c
  /\ selectedRegion' = regionsEffect(c, countries, fetches).selectedRegion
  /\ regionsData' = regionsEffect(c, countries, fetches).regionsData
  /\ mapView' = regionsEffect(c, countries, fetches).mapView
  /\ sowingMap' = regionsEffect(c, countries, fetches).sowingMap
  /\ fetches' = regionsEffect(c, countries, fetches).fetches
  /\ UNCHANGED <<helperVars, handlerVars, concurrentVars, mounted, countries,
                 suggestions, isSuggesting, warnings>>

\* loadCountries after the await
CountriesSettle(i, outcome) ==
  /\ i \in DOMAIN fetches
  /\ fetches[i].kind = "countries"
  /\ fetches[i].state = "pending"
  /\ IF outcome = "ok" /\ fetches[i].isMounted
     THEN /\ Len(regionsEffect(selectedCountry, KnownCountries,
                               Ended(fetches, i, outcome)).fetches)
               <= MaxFetches
          /\ countries' = KnownCountries
          /\ selectedRegion' =
               regionsEffect(selectedCountry, KnownCountries,
                             Ended(fetches, i, outcome)).selectedRegion
          /\ regionsData' =
               regionsEffect(selectedCountry, KnownCountries,
                             Ended(fetches, i, outcome)).regionsData
          /\ mapView' =
               regionsEffect(selectedCountry, KnownCountries,
                             Ended(fetches, i, outcome)).mapView
          /\ sowingMap' =
               regionsEffect(selectedCountry, KnownCountries,
                             Ended(fetches, i, outcome)).sowingMap
          /\ fetches' =
               regionsEffect(selectedCountry, KnownCountries,
                             Ended(fetches, i, outcome)).fetches
     ELSE /\ fetches' = Ended(fetches, i, outcome)
          /\ UNCHANGED <<countries, selectedRegion, regionsData, mapView,
                         sowingMap>>
  /\ UNCHANGED <<helperVars, handlerVars, concurrentVars, mounted,
                 selectedCountry, suggestions, isSuggesting, warnings>>

\* loadRegions after the await
RegionsSettle(i, outcome, fetchedRegions) ==
  /\ i \in DOMAIN fetches
  /\ fetches[i].kind = "regions"
  /\ fetches[i].state = "pending"
  /\ fetchedRegions \in RegionsResponses(fetches[i].param)
  /\ IF fetches[i].isMounted
     THEN \E data \in {IF outcome = "ok"
                       THEN uniqueRegions(<<>>, fetchedRegions) ELSE <<>>} :
            /\ Len(sowingMapEffect(selectedRegion, data,
                                   Ended(fetches, i, outcome)).fetches)
                 <= MaxFetches
            /\ regionsData' = data
            /\ mapView' =
                 sowingMapEffect(selectedRegion, data,
                                 Ended(fetches, i, outcome)).mapView
            /\ sowingMap' =
                 sowingMapEffect(selectedRegion, data,
                                 Ended(fetches, i, outcome)).sowingMap
            /\ fetches' =
                 sowingMapEffect(selectedRegion, data,
                                 Ended(fetches, i, outcome)).fetches
     ELSE /\ fetches' = Ended(fetches, i, outcome)
          /\ UNCHANGED <<regionsData, mapView, sowingMap>>
  /\ UNCHANGED <<helperVars, handlerVars, concurrentVars, mounted, countries,
                 selectedCountry, selectedRegion, suggestions, isSuggesting,
                 warnings>>

\* the options of the region field: regions, of regionsData
regions == {Str(regionsData[i].name_latn) : i \in DOMAIN regionsData}

\* setSelectedRegion(e.value) of the region field
SelectRegion(r) ==
  /\ mounted
  /\ r \in regions
  /\ r # selectedRegion
  /\ Len(sowingMapEffect(r, regionsData, fetches).fetches) <= MaxFetches
  /\ selectedRegion' = r
  /\ mapView' = sowingMapEffect(r, regionsData, fetches).mapView
  /\ sowingMap' = sowingMapEffect(r, regionsData, fetches).sowingMap
  /\ fetches' = sowingMapEffect(r, regionsData, fetches).fetches
  /\ UNCHANGED <<helperVars, handlerVars, concurrentVars, mounted, countries,
                 selectedCountry, regionsData, suggestions, isSuggesting,
                 warnings>>

\* loadSowingMap setting the sowing map whatever isMounted is
SowingMapSettleUnguarded(i, outcome) ==
  /\ i \in DOMAIN fetches
  /\ fetches[i].kind = "sowingmap"
  /\ fetches[i].state = "pending"
  /\ fetches' = Ended(fetches, i, outcome)
  /\ sowingMap' = IF outcome = "ok" THEN SowingMapOf(i) ELSE Null
  /\ UNCHANGED <<helperVars, handlerVars, concurrentVars, mounted, countries,
                 selectedCountry, selectedRegion, regionsData, mapView,
                 suggestions, isSuggesting, warnings>>

\* loadSowingMap after the await
SowingMapSettle(i, outcome) ==
  /\ i \in DOMAIN fetches
  /\ fetches[i].kind = "sowingmap"
  /\ fetches[i].state = "pending"
  /\ fetches' = Ended(fetches, i, outcome)
  /\ IF fetches[i].isMounted
     THEN sowingMap' = IF outcome = "ok" THEN SowingMapOf(i) ELSE Null
     ELSE UNCHANGED sowingMap
  /\ UNCHANGED <<helperVars, handlerVars, concurrentVars, mounted, countries,
                 selectedCountry, selectedRegion, regionsData, mapView,
                 suggestions, isSuggesting, warnings>>

\* handleSuggest up to the await
Suggest ==
  /\ mounted
  /\ IF selectedCountry = ""
     THEN /\ warnings < MaxWarnings
          /\ warnings' = warnings + 1
          /\ UNCHANGED <<isSuggesting, fetches>>
     ELSE /\ Len(fetches) < MaxFetches
          /\ isSuggesting' = TRUE
          /\ fetches' = Append(fetches, Fetch("predicate", selectedCountry))
          /\ UNCHANGED warnings
  /\ UNCHANGED <<helperVars, handlerVars, concurrentVars, mounted, countries,
                 selectedCountry, selectedRegion, regionsData, mapView,
                 sowingMap, suggestions>>

\* handleSuggest after the await, without its finally
PredicateSettleNoFinally(i, outcome) ==
  /\ i \in DOMAIN fetches
  /\ fetches[i].kind = "predicate"
  /\ fetches[i].state = "pending"
  /\ fetches' = Ended(fetches, i, outcome)
  /\ IF mounted
     THEN /\ suggestions' = IF outcome = "ok" THEN ResultsOf(i) ELSE <<>>
          /\ isSuggesting' = IF outcome = "ok" THEN FALSE ELSE isSuggesting
     ELSE UNCHANGED <<suggestions, isSuggesting>>
  /\ UNCHANGED <<helperVars, handlerVars, concurrentVars, mounted, countries,
                 selectedCountry, selectedRegion, regionsData, mapView,
                 sowingMap, warnings>>

\* handleSuggest after the await: try, catch and finally.  It has no
\* isMounted; the state of a component that is gone takes no update.
PredicateSettle(i, outcome) ==
  /\ i \in DOMAIN fetches
  /\ fetches[i].kind = "predicate"
  /\ fetches[i].state = "pending"
  /\ fetches' = Ended(fetches, i, outcome)
  /\ IF mounted
     THEN /\ suggestions' = IF outcome = "ok" THEN ResultsOf(i) ELSE <<>>
          /\ isSuggesting' = FALSE
     ELSE UNCHANGED <<suggestions, isSuggesting>>
  /\ UNCHANGED <<helperVars, handlerVars, concurrentVars, mounted, countries,
                 selectedCountry, selectedRegion, regionsData, mapView,
                 sowingMap, warnings>>

\* the component goes: the clean-up of every effect
Unmount ==
  /\ mounted
  /\ mounted' = FALSE
  /\ fetches' = Cleanup(fetches, {"countries", "regions", "sowingmap"})
  /\ UNCHANGED <<helperVars, handlerVars, concurrentVars, countries,
                 selectedCountry, selectedRegion, regionsData, mapView,
                 sowingMap, suggestions, isSuggesting, warnings>>

Requested == 1..MaxFetches

\* the effects and the events that run them.  handleSuggest reads
\* selectedCountry alone and writes suggestions and isSuggesting, that no
\* effect reads: it has its specification below.
HookNext ==
  \/ \E c \in CountryNames : SelectCountry(c)
  \/ \E i \in Requested, outcome \in Outcomes : CountriesSettle(i, outcome)
  \/ \E i \in Requested, outcome \in Outcomes :
       \E fetchedRegions \in RegionsResponses("AA") \cup RegionsResponses("BB") :
         RegionsSettle(i, outcome, fetchedRegions)
  \/ \E r \in {Str(n) : n \in RegionNames("A") \cup RegionNames("B")} :
       SelectRegion(r)
  \/ \E i \in Requested, outcome \in Outcomes : SowingMapSettle(i, outcome)
  \/ Unmount

HookSpec == Init /\ [][HookNext]_vars

\* handleSuggest tells no country from a country
SuggestCountries == {"", "A"}

\* handleSuggest and the events it depends on
SuggestNext ==
  \/ \E c \in SuggestCountries : SelectCountry(c)
  \/ Suggest
  \/ \E i \in Requested, outcome \in Outcomes : PredicateSettle(i, outcome)
  \/ Unmount

SuggestSpec == Init /\ [][SuggestNext]_vars

\* every request ends, with an answer or with an error of the network
SuggestFairSpec ==
  /\ SuggestSpec
  /\ \A i \in Requested :
       WF_vars(\E outcome \in Outcomes : PredicateSettle(i, outcome))

----------------------------------------------------------------------------
(* The properties *)

\* the argument as the caller built it, and the value returned with the
\* objects it refers to
In == given[1]
Out == Deep(heap, ret)

Called(f) == fn = f

IsFeature(v) == v.k = "obj" /\ Get(v, "type") = Str("Feature")

IsFeatureCollection(v) ==
  /\ v.k = "obj"
  /\ Get(v, "type") = Str("FeatureCollection")
  /\ IsArray(Get(v, "features"))

\* { count, features }: a numeric count, an array of Features, no type tag
IsFraming(v) ==
  /\ v.k = "obj"
  /\ ~Has(v, "type")
  /\ Get(v, "count").k = "num"
  /\ IsArray(Get(v, "features"))
  /\ \A i \in DOMAIN Get(v, "features").v : IsFeature(Get(v, "features").v[i])

\* a Geometry of one of the seven kinds, with the member its kind carries
IsGeometry(v) ==
  /\ v.k = "obj"
  /\ \/ /\ Get(v, "type") \in {Str(t) : t \in CoordKinds}
        /\ Get(v, "coordinates") \in CoordsOf(Get(v, "type").v)
     \/ /\ Get(v, "type") = Str("GeometryCollection")
        /\ IsArray(Get(v, "geometries"))
        /\ ~Has(v, "coordinates")

\* C1: transformFeatureCollectionTo4326 on a { count, features } payload
\* returns an object of the same shape (the same fields, the same count, as
\* many features) in which the geometry of every feature is the geometry of
\* the input feature reprojected to EPSG:4326.
C1_FramingReprojected ==
  (Called("transformFeatureCollectionTo4326") /\ IsFraming(In)) =>
    /\ Out.k = "obj"
    /\ DOMAIN Out.v = DOMAIN In.v
    /\ Get(Out, "count") = Get(In, "count")
    /\ IsArray(Get(Out, "features"))
    /\ DOMAIN Get(Out, "features").v = DOMAIN Get(In, "features").v
    /\ \A i \in DOMAIN Get(In, "features").v :
         Get(Get(Out, "features").v[i], "geometry") =
           transformGeometryTo4326(Get(Get(In, "features").v[i], "geometry"))

\* C2: transformFeatureCollectionTo4326 on a Geometry of any of the seven
\* kinds, a top-level GeometryCollection included, returns
\* transformGeometryTo4326 of it.
C2_GeometryReprojected ==
  (Called("transformFeatureCollectionTo4326") /\ IsGeometry(In)) =>
    Out = transformGeometryTo4326(In)

\* C3: the value transformFeatureTo4326 returns for a Feature with a crs
\* field, and the value transformFeatureCollectionTo4326 returns for a
\* Feature or a FeatureCollection with a crs field, has no crs field,
\* whatever the value of the field was.
C3_CrsRemoved ==
  /\ (Called("transformFeatureTo4326") /\ IsFeature(In) /\ Has(In, "crs")) =>
       Out.k = "obj" /\ ~Has(Out, "crs")
  /\ (/\ Called("transformFeatureCollectionTo4326")
      /\ IsFeature(In) \/ IsFeatureCollection(In)
      /\ Has(In, "crs")) =>
       Out.k = "obj" /\ ~Has(Out, "crs")

\* C4: every field of a geometry other than coordinates and geometries is a
\* field of transformGeometryTo4326 of it, with the same value.
C4_GeometryFieldsKept ==
  (Called("transformGeometryTo4326") /\ In.k = "obj" /\ ret # Throw) =>
    \A key \in DOMAIN In.v \ {"coordinates", "geometries"} :
      Has(Out, key) /\ Get(Out, key) = Get(In, key)

\* C5: after a call of any of the five helpers, every argument, with all
\* that it refers to, is the value the caller built before the call.
C5_ArgumentsNotMutated ==
  fn # "none" =>
    \A i \in DOMAIN given : Deep(heap, arg[i]) = given[i]

\* C5 witness: a Feature with a bbox and a crs was reprojected, and the
\* object returned has the bbox rewritten and the crs deleted.
C5_Witness ==
  /\ Called("transformFeatureTo4326")
  /\ IsFeature(In)
  /\ Get(In, "bbox") = Box4
  /\ Get(In, "crs") = Crs
  /\ ret.k = "ref"
  /\ Get(Out, "bbox") # Box4
  /\ ~Has(Out, "crs")

\* C6: transformGeometryTo4326, transformFeatureTo4326 and
\* transformFeatureCollectionTo4326 return null for null and undefined for
\* undefined, and do not throw.
C6_NullPassesThrough ==
  (/\ fn \in {"transformGeometryTo4326", "transformFeatureTo4326",
              "transformFeatureCollectionTo4326"}
   /\ In \in {Null, Undef}) =>
    ret = In

\* C6 witness: transformFeatureTo4326(null) returned null.
C6_Witness ==
  Called("transformFeatureTo4326") /\ In = Null /\ ret = Null

\* C7: transformFeatureTo4326 of a value whose type is not "Feature" returns
\* the value itself, and the value is as it was: nothing reprojected, added
\* or removed.
C7_NonFeatureReturned ==
  (Called("transformFeatureTo4326") /\ ~IsFeature(In)) =>
    ret = arg[1] /\ Out = In

\* C7 witness: a value tagged "NotAFeature" that has a geometry, a bbox and
\* a crs was returned.
C7_Witness ==
  /\ Called("transformFeatureTo4326")
  /\ In = NotAFeature
  /\ ret = arg[1]

\* the nesting of a coordinate structure: every value that is no array
\* replaced by null
RECURSIVE Nesting(_)
Nesting(v) ==
  IF IsArray(v) THEN Arr([i \in DOMAIN v.v |-> Nesting(v.v[i])]) ELSE Null

\* C8: for each of the six kinds with coordinates and every coordinate
\* structure of the depth of the kind, transformCoords returns a structure
\* of the same depth with as many elements at every level, down to the
\* elements of each position.
C8_ShapePreserved ==
  (/\ Called("transformCoords")
   /\ given[1] \in {Str(t) : t \in CoordKinds}
   /\ given[2] \in CoordsOf(given[1].v)) =>
    Nesting(ret) = Nesting(given[2])

\* C8 witness: a MultiPolygon of one polygon of one ring of two positions
\* was transformed, and the positions changed.
C8_Witness ==
  /\ Called("transformCoords")
  /\ given[1] = Str("MultiPolygon")
  /\ given[2] = Arr(<<Arr(<<Arr(<<P2, P3>>)>>)>>)
  /\ ret.k = "arr"
  /\ ret # given[2]

\* C9: transformPosition of a position of 2 or 3 numbers returns a tuple of
\* as many elements.
C9_ArityPreserved ==
  (Called("transformPosition") /\ In \in Positions) =>
    ret.k = "arr" /\ Len(ret.v) = Len(In.v)

\* C9 witness: a position with elevation 0 was transformed into a tuple of
\* 3 elements.
C9_Witness ==
  /\ Called("transformPosition")
  /\ In \in Positions
  /\ Len(In.v) = 3
  /\ In.v[3] = Num(0)
  /\ ret.k = "arr"
  /\ Len(ret.v) = 3

\* C10: the third element of transformPosition([x, y, z]) is z, and its
\* first two elements are those of transformPosition([x, y]).
C10_ElevationKept ==
  (Called("transformPosition") /\ In \in Positions /\ Len(In.v) = 3) =>
    /\ ret.k = "arr"
    /\ ret.v[3] = In.v[3]
    /\ SubSeq(ret.v, 1, 2) = transformPosition(Arr(SubSeq(In.v, 1, 2))).v

\* C10 witness: a position with elevation 7 off the origin was transformed:
\* the elevation is 7 and the easting became a longitude.
C10_Witness ==
  /\ Called("transformPosition")
  /\ In \in Positions
  /\ Len(In.v) = 3
  /\ In.v[3] = Num(7)
  /\ ret.k = "arr"
  /\ ret.v[3] = Num(7)
  /\ ret.v[1] # In.v[1]

\* a GeometryCollection whose geometries member is an array
IsCollectionOfGeometries(v) ==
  /\ v.k = "obj"
  /\ Get(v, "type") = Str("GeometryCollection")
  /\ IsArray(Get(v, "geometries"))

\* C11: transformGeometryTo4326 of a GeometryCollection with an array of
\* geometries, when it returns, returns a GeometryCollection with as many
\* geometries, the i-th of the kind of the i-th child of the input and equal
\* to transformGeometryTo4326 of that child, collections nested in the
\* collection included.
C11_ChildrenReprojected ==
  (/\ Called("transformGeometryTo4326")
   /\ IsCollectionOfGeometries(In)
   /\ ret # Throw) =>
    /\ Get(ret, "type") = Str("GeometryCollection")
    /\ IsArray(Get(ret, "geometries"))
    /\ Len(Get(ret, "geometries").v) = Len(Get(In, "geometries").v)
    /\ \A i \in DOMAIN Get(In, "geometries").v :
         LET child == Get(In, "geometries").v[i]
             out == Get(ret, "geometries").v[i]
         IN  /\ out = transformGeometryTo4326(child)
             /\ out.k = child.k
             /\ child.k = "obj" => Get(out, "type") = Get(child, "type")

\* C11 witness: a collection of a Point and a collection of one Point was
\* reprojected: the result holds a Point and a collection, in that order,
\* and the Point inside the nested collection has new coordinates.
C11_Witness ==
  /\ Called("transformGeometryTo4326")
  /\ In = GC(<<Geom("Point", P2), GC(<<Geom("Point", P3)>>)>>)
  /\ Get(Get(ret, "geometries").v[1], "type") = Str("Point")
  /\ Get(Get(ret, "geometries").v[2], "type") = Str("GeometryCollection")
  /\ Get(Get(ret, "geometries").v[2], "geometries").v[1] =
       Geom("Point", transformPosition(P3))
  /\ transformPosition(P3) # P3

\* the value transformFeatureTo4326 returns for the value f
FeatureResult(f) ==
  LET l == Load(f)
      res == transformFeatureTo4326(l.h, l.r)
  IN  Deep(res.h, res.r)

\* C12: transformFeatureCollectionTo4326 of a value tagged
\* "FeatureCollection" with an array of features, when it returns, returns
\* an object whose features array has as many elements in the same order,
\* the i-th being transformFeatureTo4326 of the i-th of the input (what is
\* no Feature is the very element of the input); every other top-level
\* field but bbox and crs is there with the value it had.
C12_FeaturesMapped ==
  (/\ Called("transformFeatureCollectionTo4326")
   /\ IsFeatureCollection(In)
   /\ ret # Throw) =>
    /\ ret.k = "ref"
    /\ IsArray(Get(Out, "features"))
    /\ Len(Get(Out, "features").v) = Len(Get(In, "features").v)
    /\ \A i \in DOMAIN Get(In, "features").v :
         /\ Get(Out, "features").v[i] = FeatureResult(Get(In, "features").v[i])
         /\ ~IsFeature(Get(In, "features").v[i]) =>
              Field(heap, ret, "features").v[i] =
                Field(heap, arg[1], "features").v[i]
    /\ \A key \in DOMAIN In.v \ {"features", "bbox", "crs"} :
         Has(Out, key) /\ Get(Out, key) = Get(In, key)

\* C12 witness: a collection with a field of its own, holding a value that
\* is no Feature and then a Feature, was reprojected: the first element is
\* the one given, the second has a new geometry, the field is kept.
C12_Witness ==
  /\ Called("transformFeatureCollectionTo4326")
  /\ IsFeatureCollection(In)
  /\ Get(In, "features") = Arr(<<NotAFeature, Feat(Geom("Point", P2))>>)
  /\ Get(In, "name") = Str("field")
  /\ ret.k = "ref"
  /\ Get(Out, "features").v[1] = NotAFeature
  /\ Get(Out, "features").v[2] = Feat(Geom("Point", transformPosition(P2)))
  /\ Get(Out, "name") = Str("field")

\* a bounding box of n numbers
IsBox(v, n) ==
  /\ IsArray(v)
  /\ Len(v.v) = n
  /\ \A i \in DOMAIN v.v : v.v[i].k = "num"

\* the call reprojected a Feature or a FeatureCollection and returned
Reprojected ==
  /\ \/ Called("transformFeatureTo4326") /\ IsFeature(In)
     \/ /\ Called("transformFeatureCollectionTo4326")
        /\ IsFeature(In) \/ IsFeatureCollection(In)
  /\ ret # Throw

\* C13: the bbox of the value returned for a Feature or a FeatureCollection
\* with a bbox [minX, minY, maxX, maxY] has exactly 4 elements: the
\* projection of (minX, minY), then the projection of (maxX, maxY), computed
\* from the two corners and not from the geometry.
C13_BboxCorners ==
  (Reprojected /\ IsBox(Get(In, "bbox"), 4)) =>
    LET bbox == Get(In, "bbox")
        box == Get(Out, "bbox")
    IN  /\ IsArray(box)
        /\ Len(box.v) = 4
        /\ SubSeq(box.v, 1, 2) = Forward(bbox.v[1], bbox.v[2]).v
        /\ SubSeq(box.v, 3, 4) = Forward(bbox.v[3], bbox.v[4]).v

\* C13 witness: a Feature whose geometry is a Point and whose bbox has the
\* corners (0, 0) and (1000000, -3000000) was reprojected: the origin stays
\* the first corner, and the second corner moved to other values than the
\* Point.
C13_Witness ==
  /\ Called("transformFeatureTo4326")
  /\ IsFeature(In)
  /\ Get(In, "geometry") = Geom("Point", P2)
  /\ Get(In, "bbox") = Box4
  /\ ret # Throw
  /\ SubSeq(Get(Out, "bbox").v, 1, 2) = <<Num(0), Num(0)>>
  /\ SubSeq(Get(Out, "bbox").v, 3, 4) = transformPosition(P2).v
  /\ Get(Out, "bbox").v[4].v < 0

\* C14: a bbox that is not a box of 4 numbers, one of 6 numbers or of fewer
\* than 4 for instance, is in the value returned for the Feature or the
\* FeatureCollection exactly as it was in the input.
C14_OtherBboxKept ==
  (Reprojected /\ Has(In, "bbox") /\ ~IsBox(Get(In, "bbox"), 4)) =>
    Get(Out, "bbox") = Get(In, "bbox")

\* a tuple of 2 or 3 numbers
IsPosition(p) ==
  /\ IsArray(p)
  /\ Len(p.v) \in {2, 3}
  /\ \A i \in DOMAIN p.v : p.v[i].k = "num"

\* positions nested in d levels of arrays
RECURSIVE HasDepth(_, _)
HasDepth(c, d) ==
  IF d = 0 THEN IsPosition(c)
  ELSE IsArray(c) /\ \A i \in DOMAIN c.v : HasDepth(c.v[i], d - 1)

\* a Geometry of one of the six kinds with coordinates
HasCoordinates(v) ==
  /\ v.k = "obj"
  /\ Get(v, "type") \in {Str(t) : t \in CoordKinds}
  /\ HasDepth(Get(v, "coordinates"), DepthOf(Get(v, "type").v))

\* the positions of a coordinate structure
RECURSIVE PositionsIn(_)
PositionsIn(c) ==
  IF IsPosition(c) THEN {c}
  ELSE IF IsArray(c) THEN UNION {PositionsIn(c.v[i]) : i \in DOMAIN c.v}
  ELSE {}

\* the positions of a geometry, those of the children of a collection
\* included
RECURSIVE PositionsOfGeometry(_)
PositionsOfGeometry(g) ==
  IF HasCoordinates(g) THEN PositionsIn(Get(g, "coordinates"))
  ELSE IF IsCollectionOfGeometries(g)
  THEN UNION {PositionsOfGeometry(Get(g, "geometries").v[i]) :
                i \in DOMAIN Get(g, "geometries").v}
  ELSE {}

\* the positions the transform reaches from its entry point: those of a
\* Geometry with coordinates, of the geometry of a Feature, of the
\* geometries of the Features of a FeatureCollection
PositionsReached(v) ==
  IF HasCoordinates(v) THEN PositionsOfGeometry(v)
  ELSE IF IsFeature(v) THEN PositionsOfGeometry(Get(v, "geometry"))
  ELSE IF IsFeatureCollection(v)
  THEN UNION {PositionsOfGeometry(Get(Get(v, "features").v[i], "geometry")) :
                i \in {j \in DOMAIN Get(v, "features").v :
                         IsFeature(Get(v, "features").v[j])}}
  ELSE {}

AtOrigin(p) == p.v[1] = Num(0) /\ p.v[2] = Num(0)

\* transformFeatureCollectionTo4326 applied to the value the call returned
Again ==
  LET res == transformFeatureCollectionTo4326(heap, ret)
  IN  Deep(res.h, res.r)

\* C15 as claimed: for every Geometry with coordinates, Feature or
\* FeatureCollection that contains at least one position,
\* transformFeatureCollectionTo4326 applied to its own output returns
\* another value than the output.
C15_NeverIdempotent ==
  (/\ Called("transformFeatureCollectionTo4326")
   /\ ret # Throw
   /\ PositionsReached(In) # {}) =>
    Again # Out

\* C15 amended: for every Geometry with coordinates, Feature or
\* FeatureCollection whose output holds a position other than [0, 0],
\* transformFeatureCollectionTo4326 applied to its own output returns
\* another value than the output; a Geometry with coordinates whose
\* positions are all at x = 0, y = 0 comes back with the value of the input,
\* however often the transform is applied.
C15_IdempotentOnlyAtOrigin ==
  /\ (/\ Called("transformFeatureCollectionTo4326")
      /\ ret # Throw
      /\ \E q \in PositionsReached(Out) : ~AtOrigin(q)) =>
       Again # Out
  /\ (/\ Called("transformFeatureCollectionTo4326")
      /\ HasCoordinates(In)
      /\ \A p \in PositionsReached(In) : AtOrigin(p)) =>
       Out = In /\ Again = Out

\* C15 witness: a Feature with a Point off the origin was reprojected, and
\* reprojecting the result moves the Point again.
C15_Witness ==
  /\ Called("transformFeatureCollectionTo4326")
  /\ In = Feat(Geom("Point", P2))
  /\ Get(Out, "geometry") = Geom("Point", transformPosition(P2))
  /\ Get(Again, "geometry") =
       Geom("Point", transformPosition(transformPosition(P2)))
  /\ Again # Out

\* a bbox member as GeoJSON allows it: none, or 4 or 6 numbers
BboxWellFormed(v) ==
  ~Has(v, "bbox") \/ IsBox(Get(v, "bbox"), 4) \/ IsBox(Get(v, "bbox"), 6)

\* a structurally well-formed Geometry: positions of 2 or 3 numbers nested
\* as its kind says, or an empty coordinates array, or a collection of
\* well-formed geometries
RECURSIVE GeometryWellFormed(_)
GeometryWellFormed(g) ==
  /\ g.k = "obj"
  /\ BboxWellFormed(g)
  /\ \/ HasCoordinates(g)
     \/ /\ Get(g, "type") \in {Str(t) : t \in CoordKinds}
        /\ Get(g, "coordinates") = Arr(<<>>)
     \/ /\ IsCollectionOfGeometries(g)
        /\ \A i \in DOMAIN Get(g, "geometries").v :
             GeometryWellFormed(Get(g, "geometries").v[i])

FeatureWellFormed(f) ==
  /\ IsFeature(f)
  /\ BboxWellFormed(f)
  /\ Get(f, "geometry") = Null \/ GeometryWellFormed(Get(f, "geometry"))

CollectionWellFormed(fc) ==
  /\ IsFeatureCollection(fc)
  /\ BboxWellFormed(fc)
  /\ \A i \in DOMAIN Get(fc, "features").v :
       FeatureWellFormed(Get(fc, "features").v[i])

WrongArity(p) ==
  /\ IsArray(p)
  /\ Len(p.v) \notin {2, 3}
  /\ \A i \in DOMAIN p.v : p.v[i].k = "num"

\* C17: transformPosition of a tuple of fewer than 2 or more than 3 numbers
\* throws, and so does transformFeatureCollectionTo4326 of a Point or of a
\* Feature of a Point with such a tuple as coordinates: no value is returned
\* in which the tuple was cut, filled up or converted.
C17_WrongArityThrows ==
  /\ (Called("transformPosition") /\ WrongArity(In)) => ret = Throw
  /\ (/\ Called("transformFeatureCollectionTo4326")
      /\ In.k = "obj"
      /\ \/ /\ Get(In, "type") = Str("Point")
            /\ WrongArity(Get(In, "coordinates"))
         \/ /\ IsFeature(In)
            /\ Get(Get(In, "geometry"), "type") = Str("Point")
            /\ WrongArity(Get(Get(In, "geometry"), "coordinates"))) =>
       ret = Throw

\* the script failed, printed what is no JSON, or printed a payload the
\* reprojection throws on
Raises(settlement) ==
  \/ settlement = Rejected
  \/ rawPayload(settlement) = Throw
  \/ payload4326(rawPayload(settlement)) = Throw

\* C18: GET /sowingmap never sends more than one response, and sends one
\* when it is done; when the script, JSON.parse or the reprojection of any
\* feature raised, the response is the 500 with { error: 'Failed to retrieve
\* sowing map data' }; a 200 is only sent when nothing raised, and its body
\* is the whole payload reprojected.
C18_AllOrNothing ==
  /\ Len(sent) <= 1
  /\ handler = "done" => Len(sent) = 1
  /\ (handler = "done" /\ settled # NotSettled /\ Raises(settled)) =>
       sent = <<Failed>>
  /\ \A i \in DOMAIN sent :
       sent[i].status = 200 =>
         /\ settled # NotSettled
         /\ ~Raises(settled)
         /\ sent[i].body = Serialise(payload4326(rawPayload(settled)))

\* C18 witness: the script printed a collection of two Features, the first
\* one sound and the second one with coordinates that are no array; the one
\* response is the 500.
C18_Witness ==
  /\ handler = "done"
  /\ settled =
       JsonOf(FC(<<Feat(Geom("Point", P2)), Feat(Geom("LineString", Num(1)))>>))
  /\ FeatureResult(Feat(Geom("Point", P2))) # Throw
  /\ sent = <<Failed>>

\* what the claimed dispatch of transformFeatureCollectionTo4326 returns for
\* fc on the heap h: the first of the four cases that applies, a field
\* counted as there whatever its value
Dispatched(h, fc) ==
  IF fc.k # "ref" THEN [h |-> h, r |-> fc]
  ELSE IF /\ Field(h, fc, "type") = Str("FeatureCollection")
          /\ IsArray(Field(h, fc, "features"))
  THEN reprojectCollection(h, fc)
  ELSE IF Field(h, fc, "type") = Str("Feature")
  THEN transformFeatureTo4326(h, fc)
  ELSE IF Has(Inline(h, fc), "type") /\ Has(Inline(h, fc), "coordinates")
  THEN [h |-> h, r |-> transformGeometryTo4326(Inline(h, fc))]
  ELSE [h |-> h, r |-> fc]

\* C19: transformFeatureCollectionTo4326 takes the first case that applies:
\* a value tagged "FeatureCollection" with an array of features is
\* reprojected as a collection, coordinates field or not; a value tagged
\* "Feature" yields transformFeatureTo4326 of it; a value with a type field
\* and a coordinates field yields transformGeometryTo4326 of it; every
\* other value is returned as it is.
C19_DispatchOrder ==
  Called("transformFeatureCollectionTo4326") =>
    LET l == Load(In)
        claimed == Dispatched(l.h, l.r)
    IN  /\ ret = claimed.r
        /\ heap = claimed.h
        /\ (IsFeatureCollection(In) /\ ret # Throw) =>
             ret.k = "ref" /\ IsArray(Get(Out, "features"))

\* C20: transformFeatureTo4326 of a Feature, when it returns, returns an
\* object that has properties and every other field of the Feature but
\* geometry, bbox and crs, each with the value it had, and whose geometry is
\* transformGeometryTo4326 of the geometry of the Feature.
C20_FeatureFieldsKept ==
  (Called("transformFeatureTo4326") /\ IsFeature(In) /\ ret # Throw) =>
    /\ ret.k = "ref"
    /\ \A key \in DOMAIN In.v \ {"geometry", "bbox", "crs"} :
         Has(Out, key) /\ Get(Out, key) = Get(In, key)
    /\ Has(In, "properties") =>
         Get(Out, "properties") = Get(In, "properties")
    /\ Get(Out, "geometry") = transformGeometryTo4326(Get(In, "geometry"))

\* C20 witness: a Feature with properties, an id and a name was reprojected:
\* the three are in the result as they were, and the geometry is new.
C20_Witness ==
  /\ Called("transformFeatureTo4326")
  /\ In = With(Feat(Geom("Point", P2)), OwnMembers)
  /\ ret.k = "ref"
  /\ Get(Out, "properties") = Obj([crop |-> Str("wheat")])
  /\ Get(Out, "id") = Num(5)
  /\ Get(Out, "name") = Str("field")
  /\ Get(Out, "geometry") = Geom("Point", transformPosition(P2))
  /\ Get(Out, "geometry") # Get(In, "geometry")

\* transformPosition applied to the positions d levels down in c
RECURSIVE AtDepth(_, _)
AtDepth(c, d) ==
  IF d = 0 THEN transformPosition(c)
  ELSE Arr([i \in DOMAIN c.v |-> AtDepth(c.v[i], d - 1)])

\* C22: transformCoords returns the coordinate structure with
\* transformPosition applied at depth 0 for Point, 1 for MultiPoint and
\* LineString, 2 for MultiLineString and Polygon, 3 for MultiPolygon; for
\* the tag GeometryCollection and for any other tag it returns the value it
\* was given, undefined included, and does not throw.
C22_DepthByTag ==
  /\ (/\ Called("transformCoords")
      /\ given[1] \in {Str(t) : t \in CoordKinds}
      /\ given[2] \in CoordsOf(given[1].v)) =>
       ret = AtDepth(given[2], DepthOf(given[1].v))
  /\ (/\ Called("transformCoords")
      /\ given[1] \notin {Str(t) : t \in CoordKinds}) =>
       ret = given[2]

\* C22 witness: a LineString of two positions came back with both
\* positions reprojected, at one level of nesting.
C22_Witness ==
  /\ Called("transformCoords")
  /\ given[1] = Str("LineString")
  /\ given[2] = Arr(<<P2, P3>>)
  /\ ret = Arr(<<transformPosition(P2), transformPosition(P3)>>)
  /\ ret # given[2]

\* the coordinates parameter is missing, is no string, or is blank
NoCoordinates == query.k # "text" \/ Trim(query.v) = <<>>

\* C27: GET /sowingmap sends at most one response, and one when it is done.
\* A missing, non-string or blank coordinates parameter yields the 400, with
\* no script looked up or started; otherwise a missing script yields the 500
\* 'Server misconfiguration: helper script not found', with no process
\* started; otherwise a blank output of the script yields the 200 with
\* { count: 0, features: [] }; and a response has the header Cache-Control:
\* max-age=3600 exactly when it is a 200.
C27_OutcomesOrdered ==
  /\ Len(sent) <= 1
  /\ handler = "done" => Len(sent) = 1
  /\ (handler # "idle" /\ NoCoordinates) =>
       /\ sent = <<CoordinatesRequired>>
       /\ resolved = "no"
       /\ spawned = <<>>
       /\ settled = NotSettled
  /\ (handler # "idle" /\ ~NoCoordinates /\ resolved # "found") =>
       /\ sent = <<ScriptNotFound>>
       /\ resolved = "missing"
       /\ spawned = <<>>
       /\ settled = NotSettled
  /\ (handler # "idle" /\ ~NoCoordinates /\ resolved = "found") =>
       spawned = <<"--coordinates", Trim(query.v)>>
  /\ (handler = "done" /\ settled = Blank) =>
       sent = <<Response(200,
                         Obj([count |-> Num(0), features |-> Arr(<<>>)]),
                         "max-age=3600")>>
  /\ \A i \in DOMAIN sent :
       sent[i].cacheControl = "max-age=3600" <=> sent[i].status = 200

\* C27 witness: the parameter was " 1 2 ", the script was found and started
\* with "1 2", it printed nothing, and the one response is the 200 with no
\* feature.
C27_Witness ==
  /\ handler = "done"
  /\ query = Text(<<" ", "1", " ", "2", " ">>)
  /\ spawned = <<"--coordinates", <<"1", " ", "2">>>>
  /\ settled = Blank
  /\ Len(sent) = 1
  /\ sent[1].status = 200
  /\ Get(sent[1].body, "count") = Num(0)

\* a string that is an integer literal from end to end: digits, with or
\* without a sign, white space around them allowed
IsIntegerLiteral(v) ==
  /\ v.k = "text"
  /\ LET body == Trim(v.v)
         unsigned == IF body # <<>> /\ Head(body) \in {"+", "-"}
                     THEN Tail(body) ELSE body
     IN  unsigned # <<>> /\ LeadingDigits(unsigned) = unsigned

\* C28: GET /topic with a country answers the 400 'year query parameter
\* must be a number' whenever year is no number: absent, an array, or a
\* string that is not an integer literal from end to end, "2020abc" and
\* "20.5" included; and then no script was looked up or started.
C28_YearMustBeNumber ==
  (/\ handler # "idle"
   /\ query.country.k = "text"
   /\ Trim(query.country.v) # <<>>
   /\ ~IsIntegerLiteral(query.year)) =>
    /\ sent = <<YearRequired>>
    /\ resolved = "no"
    /\ spawned = <<>>
    /\ settled = NotSettled

\* C21: whatever the order in which requests arrive and their scripts end,
\* each request is answered as it would be were it the only one; the
\* converter shared by all is never written; and the payload a request
\* answered with is not changed by the requests served after it.
C21_InvocationsIndependent ==
  /\ process[1] = ModuleState[1]
  /\ \A r \in Requests :
       inflight[r].handler = "done" =>
         /\ inflight[r].sent = <<answer(inflight[r].settled)>>
         /\ inflight[r].payload # Undef =>
              Serialise(Deep(process, inflight[r].payload)) =
                inflight[r].sent[1].body

\* C21 witness: the second request arrived first and was answered last, both
\* with a reprojected payload, and the heap holds the objects of both.
C21_Witness ==
  /\ inflight[1].handler = "done"
  /\ inflight[2].handler = "done"
  /\ inflight[1].payload.k = "ref"
  /\ inflight[2].payload.k = "ref"
  /\ inflight[1].payload.v < inflight[2].payload.v
  /\ inflight[1].settled # inflight[2].settled
  /\ inflight[1].sent[1].status = 200
  /\ inflight[2].sent[1].status = 200

\* the request of the last run of the sowing-map effect, when it sent one and
\* the clean-up has not run since
CurrentRequests ==
  {i \in DOMAIN fetches : fetches[i].kind = "sowingmap" /\ fetches[i].isMounted}

\* the geometry of the selected region, as the effect finds it
SelectedGeometry == geomOf(selectedRegion, regionsData)

\* centre is the midpoint of the box [minLng, minLat, maxLng, maxLat], as
\* [lat, lng]
MidpointOf(centre, box) ==
  /\ 2 * Elem(centre, 0).v = Elem(box, 1).v + Elem(box, 3).v
  /\ 2 * Elem(centre, 1).v = Elem(box, 0).v + Elem(box, 2).v

\* C29: computeCenter gives null exactly when computeBoundingBox does; while
\* the hook is mounted, mapView is set exactly when the effect has sent a
\* sowing-map request, and then the request carries the box of the selected
\* region, minLng <= maxLng and minLat <= maxLat, and the centre of mapView is
\* the midpoint of the box as [lat, lng]
C29_ViewAndRequestAgree ==
  /\ \A g \in RegionGeometries :
       computeCenter(g) = Null <=> computeBoundingBox(g) = Null
  /\ mounted =>
       /\ mapView # Null <=> CurrentRequests # {}
       /\ mapView # Null =>
            /\ selectedRegion # Null
            /\ computeBoundingBox(SelectedGeometry) # Null
            /\ \A i \in CurrentRequests :
                 fetches[i].param = Join(computeBoundingBox(SelectedGeometry).v)
            /\ Elem(computeBoundingBox(SelectedGeometry), 0).v
                 <= Elem(computeBoundingBox(SelectedGeometry), 2).v
            /\ Elem(computeBoundingBox(SelectedGeometry), 1).v
                 <= Elem(computeBoundingBox(SelectedGeometry), 3).v
            /\ MidpointOf(Get(mapView, "center"),
                          computeBoundingBox(SelectedGeometry))
            /\ Get(mapView, "zoom") = Num(TARGET_ZOOM)

\* a region is selected whose box is wider than a point, its view is set and
\* its request is sent
C29_Witness ==
  /\ mounted
  /\ mapView # Null
  /\ Elem(Get(mapView, "center"), 0) # Elem(Get(mapView, "center"), 1)
  /\ \E i \in CurrentRequests :
       fetches[i].param = <<"2", ",", "-", "8", ",", "6", ",", "4">>


\* request i is a sowing-map request whose answer comes in this step, after
\* the clean-up of the effect that sent it
StaleAnswer(i) ==
  /\ i \in DOMAIN fetches
  /\ fetches[i].kind = "sowingmap"
  /\ ~fetches[i].isMounted
  /\ fetches[i].state = "pending"
  /\ fetches'[i].state # "pending"

\* the sowing map is the answer to the last sowing-map request sent, and that
\* request carries the box of the region selected now
AnswersSelectedRegion ==
  /\ selectedRegion # Null
  /\ sowingMap.request \in DOMAIN fetches
  /\ fetches[sowingMap.request].kind = "sowingmap"
  /\ fetches[sowingMap.request].state = "ok"
  /\ mounted => fetches[sowingMap.request].isMounted
  /\ \A j \in DOMAIN fetches :
       j > sowingMap.request => fetches[j].kind # "sowingmap"
  /\ computeBoundingBox(SelectedGeometry) # Null
  /\ fetches[sowingMap.request].param =
       Join(computeBoundingBox(SelectedGeometry).v)

C24_RegionOfSelectedCountry ==
  selectedRegion # Null => selectedRegion.v \in RegionNames(selectedCountry)


\* the fetchPredicate requests handleSuggest has started
Started == {i \in DOMAIN fetches : fetches[i].kind = "predicate"}
Outstanding == {i \in Started : fetches[i].state = "pending"}
LastStarted == CHOOSE i \in Started : \A j \in Started : j <= i

\* C25: while the hook is mounted, isSuggesting is true as long as a request
\* of handleSuggest is outstanding; and when none is outstanding any more,
\* suggestions holds the results of the request started last, or [] if that
\* one failed
C25_SuggestingWhileOutstanding ==
  mounted =>
    /\ Outstanding # {} => isSuggesting
    /\ Started # {} /\ Outstanding = {} =>
         suggestions = IF fetches[LastStarted].state = "ok"
                       THEN ResultsOf(LastStarted) ELSE <<>>


\* request i of handleSuggest ends in this step
PredicateEnds(i) == i \in Outstanding /\ fetches'[i].state # "pending"

\* C26: a request handleSuggest has started ends, and with it isSuggesting is
\* false again, after an answer as after a failure, and after a failure
\* suggestions is the empty list (the state of a hook that is unmounted takes
\* no update); handleSuggest with no country selected logs its warning, leaves
\* isSuggesting and suggestions as they are and sends no request
C26_SuggestingEnds ==
  /\ \A i \in Requested :
       i \in Outstanding ~>
         /\ i \in Started \ Outstanding
         /\ mounted => ~isSuggesting
  /\ [][\A i \in Requested :
          PredicateEnds(i) /\ mounted =>
            /\ ~isSuggesting'
            /\ fetches'[i].state = "error" => suggestions' = <<>>]_vars
  /\ [][/\ selectedCountry = "" => Started' = Started
        /\ warnings' # warnings =>
             /\ selectedCountry = ""
             /\ UNCHANGED <<isSuggesting, suggestions, fetches>>]_vars

\* handleSuggest was called without a country, and with one: a request was
\* answered, another failed, none is outstanding
C26_Witness ==
  /\ mounted
  /\ warnings > 0
  /\ Outstanding = {}
  /\ \E i, j \in Started :
       /\ i < j
       /\ fetches[i].state = "ok"
       /\ fetches[j].state = "error"
  /\ ~isSuggesting
  /\ suggestions = <<>>


====
